---- MODULE Spec2Model ----
(***************************************************************************)
(* A model of the grounding-and-verification pipeline of the repository:   *)
(* the chunker (backend/ingest.py) and the step validator                  *)
(* (backend/validator.py).                                                 *)
(*                                                                         *)
(* Representation.  A Python str is a sequence of one-character strings.   *)
(* A float similarity is an integer number of hundredths (0.78 is 78).     *)
(* A token of the canonical tokenizer is represented by the piece of text  *)
(* it decodes to, so that decode is concatenation of the pieces.           *)
(***************************************************************************)
EXTENDS Integers, Sequences, FiniteSets, TLC

\* ------------------------------------------------------------------ bounds

\* Longest token sequence a page is given.
MaxTokens == 5

\* Largest chunk_size and chunk_overlap an ingestor is constructed with.
MaxChunkSize == 4

\* Most passes of the chunking loop that are followed; a configuration whose
\* window advances makes at most MaxTokens of them.
MaxChunks == 6

\* ------------------------------------------------- strings (Python str ops)

Whitespace == {" ", "\n", "\t"}

RECURSIVE LStrip(_)
LStrip(s) ==
    IF s = <<>> THEN <<>>
    ELSE IF Head(s) \in Whitespace THEN LStrip(Tail(s)) ELSE s

RECURSIVE RStrip(_)
RStrip(s) ==
    IF s = <<>> THEN <<>>
    ELSE IF s[Len(s)] \in Whitespace THEN RStrip(SubSeq(s, 1, Len(s) - 1)) ELSE s

\* str.strip(): leading and trailing whitespace removed.
Strip(s) == RStrip(LStrip(s))

RECURSIVE Concat(_)
Concat(ss) == IF ss = <<>> THEN <<>> ELSE Head(ss) \o Concat(Tail(ss))

\* One decimal digit as a character.
Digit(d) == <<"0", "1", "2", "3", "4", "5", "6", "7", "8", "9">>[d + 1]

\* str(n) for a natural number, as the f-string formats it.
RECURSIVE IntToStr(_)
IntToStr(n) == IF n < 10 THEN <<Digit(n)>> ELSE IntToStr(n \div 10) \o <<Digit(n % 10)>>

\* A slice bound as Python resolves it: a negative bound counts from the
\* end, and the result is clamped to [0, n].
SliceBound(i, n) ==
    IF i < 0 THEN (IF i + n < 0 THEN 0 ELSE i + n)
    ELSE (IF i > n THEN n ELSE i)

\* Python's slice seq[lo:hi], on 0-based indices.
Slice(seq, lo, hi) ==
    SubSeq(seq, SliceBound(lo, Len(seq)) + 1, SliceBound(hi, Len(seq)))

Min(a, b) == IF a < b THEN a ELSE b

\* All sequences over S of length at most n.
SeqsUpTo(S, n) == UNION {[1..k -> S] : k \in 0..n}

UpperCase == <<"A", "B", "C", "D", "E", "F", "G", "H", "I", "J", "K", "L", "M",
               "N", "O", "P", "Q", "R", "S", "T", "U", "V", "W", "X", "Y", "Z">>

LowerCase == <<"a", "b", "c", "d", "e", "f", "g", "h", "i", "j", "k", "l", "m",
               "n", "o", "p", "q", "r", "s", "t", "u", "v", "w", "x", "y", "z">>

Digits == {"0", "1", "2", "3", "4", "5", "6", "7", "8", "9"}

LowerChar(c) ==
    IF \E i \in 1..Len(UpperCase) : UpperCase[i] = c
    THEN LowerCase[CHOOSE i \in 1..Len(UpperCase) : UpperCase[i] = c]
    ELSE c

\* str.lower()
Lower(s) == [i \in 1..Len(s) |-> LowerChar(s[i])]

\* s with every character of the set cs removed.
RECURSIVE RemoveChars(_, _)
RemoveChars(s, cs) ==
    IF s = <<>> THEN <<>>
    ELSE IF Head(s) \in cs THEN RemoveChars(Tail(s), cs)
         ELSE <<Head(s)>> \o RemoveChars(Tail(s), cs)

\* str.split(): the maximal runs of non-whitespace characters, in order.
\* cur is the run being read.
RECURSIVE SplitFrom(_, _)
SplitFrom(s, cur) ==
    IF s = <<>> THEN (IF cur = <<>> THEN <<>> ELSE <<cur>>)
    ELSE IF Head(s) \in Whitespace
         THEN (IF cur = <<>> THEN <<>> ELSE <<cur>>) \o SplitFrom(Tail(s), <<>>)
         ELSE SplitFrom(Tail(s), Append(cur, Head(s)))

Split(s) == SplitFrom(s, <<>>)

\* ' '.join(words)
RECURSIVE JoinSpace(_)
JoinSpace(ws) ==
    IF ws = <<>> THEN <<>>
    ELSE IF Len(ws) = 1 THEN ws[1]
         ELSE ws[1] \o <<" ">> \o JoinSpace(Tail(ws))

\* The elements of a sequence.
Range(seq) == {seq[i] : i \in 1..Len(seq)}

\* ----------------------------------------------------------------- chunker

\* The pieces the tokenizer's tokens decode to: a word, a word with its
\* leading space, and a lone space.
Vocab == {<<"a">>, <<" ", "b">>, <<" ">>}

\* tokenizer.decode: the concatenation of the tokens' pieces.
Decode(toks) == Concat(toks)

Filenames == {<<"n", ".", "t", "x", "t">>}

Pages == {1, 2}

\* A chunk id that runs the three parts together.
ChunkId_NoSeparators(filename, page, idx) ==
    filename \o IntToStr(page) \o IntToStr(idx)

\* chunk_id = f"{filename}_p{page}_c{chunk_idx}"
ChunkId(filename, page, idx) ==
    filename \o <<"_", "p">> \o IntToStr(page) \o <<"_", "c">> \o IntToStr(idx)

VARIABLES
    chunk_size,     \* DocumentIngestor.chunk_size
    chunk_overlap,  \* DocumentIngestor.chunk_overlap
    cpc,            \* where _chunk_text is: "idle", "loop" or "done"
    cargs,          \* the arguments of the running _chunk_text call
    tokens,         \* tokens = self.tokenizer.encode(text)
    start,          \* the window start
    chunk_idx,      \* the window ordinal
    chunks          \* the DocumentChunk list built so far

VARIABLES
    ipc,            \* where ingest_file is: "idle", "reading", "done", "raised"
    ifile,          \* the file of the running ingest_file call
    page_num,       \* the pages or slides of the file read so far
    blank_pages,    \* history: the pages read whose text had nothing but whitespace
    file_chunks     \* the chunk list the format handler has built so far

ivars == <<ipc, ifile, page_num, blank_pages, file_chunks>>

cvars == <<chunk_size, chunk_overlap, cpc, cargs, tokens, start, chunk_idx, chunks, ivars>>

VARIABLES
    sim_threshold,      \* StepValidator.sim_threshold, in hundredths
    min_ngram_overlap,  \* StepValidator.min_ngram_overlap
    vpc,                \* where validate_solution is: "idle", "loop", "done", "raised"
    mode,               \* the mode argument
    retrieved_chunks,   \* the retrieved_chunks argument
    solution_steps,     \* the solution_steps argument, as far as the loop has read it
    validation_results, \* the StepValidation list built so far
    all_supported,      \* the all_supported flag
    step_locals,        \* the locals of the latest _validate_step call
    result,             \* the dictionary validate_solution returns
    max_text_similarity, \* history: the largest best similarity of the steps validated
    validation_log      \* the records appended to the validation log file

vvars == <<sim_threshold, min_ngram_overlap, vpc, mode, retrieved_chunks, solution_steps,
           validation_results, all_supported, step_locals, result, max_text_similarity,
           validation_log>>

VARIABLES
    derived         \* the chunk ids derived so far, each with the chunk it is of

dvars == <<derived>>

VARIABLES
    collection,     \* the indexed chunks, in the order they were added
    top_k,          \* DocumentRetriever.top_k
    rpc,            \* where retrieve is: "idle", "returned" or "raised"
    rargs,          \* the arguments of the retrieve call
    backend_hits,   \* history: the hits collection.query gave, in its order
    retrieve_result, \* the list retrieve returns
    retrieval_log,  \* the records appended to the retrieval log file
    wpc,            \* where get_context_window is: "idle", "returned" or "raised"
    wargs,          \* the arguments of the get_context_window call
    context_window  \* the list get_context_window returns

rvars == <<collection, top_k, rpc, rargs, backend_hits, retrieve_result, retrieval_log,
           wpc, wargs, context_window>>

VARIABLES
    ppc,            \* where parse_solution_steps is: "idle" or "returned"
    solution_lines, \* solution_text.split('\n') of the call
    parsed_steps    \* the list parse_solution_steps returns

pvars == <<ppc, solution_lines, parsed_steps>>

VARIABLES
    apc,            \* where the /solve handler is: "idle" or "responded"
    request,        \* the SolutionRequest of the call
    response,       \* what the caller gets: a JSON body or an HTTP error
    solve_trace     \* history: what retrieval and generation did, and the calls made

svars == <<apc, request, response, solve_trace>>

VARIABLES
    tpc,            \* where the _check_textual_support call is: "idle" or "returned"
    targs,          \* the validator's settings and the arguments of the call
    text_result     \* what the call returned, with the overlap taken both ways

tvars == <<tpc, targs, text_result>>

VARIABLES
    bpc,            \* where the batch operation is: "idle" or "returned"
    batch,          \* the files or images of the batch, in input order
    batch_result,   \* what the caller of the batch operation gets
    batch_indexed   \* the chunk ids index_chunks was given by the operation

bvars == <<bpc, batch, batch_result, batch_indexed>>

VARIABLES
    xpc,            \* where the re-index is: "idle", "clearing", "deleted",
                    \* "created", "indexing" or "done"
    store,          \* the stored collection: whether it exists, how many chunks it holds
    reindex,        \* the running re-index: its round, the chunk count it found,
                    \* the chunks it is to index and those it has added
    observed        \* history: what each concurrent retrieve found in the store

xvars == <<xpc, store, reindex, observed>>

VARIABLES
    epc,            \* where the _are_symbolically_equivalent call is: "idle" or "returned"
    eargs,          \* the two expressions of the call and what sympy made of them
    equivalent      \* what the call returned

evars == <<epc, eargs, equivalent>>

VARIABLES
    opc,            \* where the operation that shows a validation is: "idle" or "returned"
    surface         \* the operation, the validation's status, and what its caller got

ovars == <<opc, surface>>

\* What the actions of one component leave alone: the other components.
NotIngestor == <<vvars, dvars, rvars, pvars, svars, tvars, bvars, xvars, evars, ovars>>

NotValidator == <<cvars, dvars, rvars, pvars, svars, tvars, bvars, xvars, evars, ovars>>

NotDerivation == <<cvars, vvars, rvars, pvars, svars, tvars, bvars, xvars, evars, ovars>>

NotRetriever == <<cvars, vvars, dvars, pvars, svars, tvars, bvars, xvars, evars, ovars>>

NotParser == <<cvars, vvars, dvars, rvars, svars, tvars, bvars, xvars, evars, ovars>>

NotSolve == <<cvars, vvars, dvars, rvars, pvars, tvars, bvars, xvars, evars, ovars>>

NotTextual == <<cvars, vvars, dvars, rvars, pvars, svars, bvars, xvars, evars, ovars>>

NotBatch == <<cvars, vvars, dvars, rvars, pvars, svars, tvars, xvars, evars, ovars>>

NotReindex == <<cvars, vvars, dvars, rvars, pvars, svars, tvars, bvars, evars, ovars>>

NotEquivalence == <<cvars, vvars, dvars, rvars, pvars, svars, tvars, bvars, xvars, ovars>>

NotSurface == <<cvars, vvars, dvars, rvars, pvars, svars, tvars, bvars, xvars, evars>>

NoFile == [filename |-> <<>>, ext |-> <<>>, priority |-> "", trusted |-> FALSE]

NoArgs == [filename |-> <<>>, page |-> 0, file_type |-> "", priority |-> "", trusted |-> FALSE]

\* An ingestor no call has been made on.
IngestorIdle ==
    /\ cpc = "idle"
    /\ cargs = NoArgs
    /\ tokens = <<>>
    /\ start = 0
    /\ chunk_idx = 0
    /\ chunks = <<>>
    /\ ipc = "idle"
    /\ ifile = NoFile
    /\ page_num = 0
    /\ blank_pages = {}
    /\ file_chunks = <<>>

\* DocumentIngestor.__init__: the two arguments are stored as given, whether
\* or not the overlap is below the size.
ChunkerInit ==
    /\ chunk_size \in 1..MaxChunkSize
    /\ chunk_overlap \in 0..MaxChunkSize
    /\ IngestorIdle

\* The chunk of a pass that reports the window size as its token count.
MakeChunk_FullCount(toks, s, idx, args) ==
    LET end == Min(s + chunk_size, Len(toks))
        chunk_tokens == Slice(toks, s, end)
    IN  [chunk_id |-> ChunkId(args.filename, args.page, idx),
         filename |-> args.filename,
         page |-> args.page,
         chunk_text |-> Strip(Decode(chunk_tokens)),
         token_count |-> chunk_size,
         chunk_index |-> idx,
         file_type |-> args.file_type,
         priority |-> args.priority,
         trusted |-> args.trusted,
         chunk_tokens |-> chunk_tokens]

\* The DocumentChunk one pass of the loop builds.  chunk_tokens is the
\* loop's local slice, kept beside the fields of the dataclass.
MakeChunk(toks, s, idx, args) ==
    LET end == Min(s + chunk_size, Len(toks))
        chunk_tokens == Slice(toks, s, end)
        chunk_text == Decode(chunk_tokens)
    IN  [chunk_id |-> ChunkId(args.filename, args.page, idx),
         filename |-> args.filename,
         page |-> args.page,
         chunk_text |-> Strip(chunk_text),
         token_count |-> Len(chunk_tokens),
         chunk_index |-> idx,
         file_type |-> args.file_type,
         priority |-> args.priority,
         trusted |-> args.trusted,
         chunk_tokens |-> chunk_tokens]

\* A window advance that forgets the overlap.
NextStart_NoOverlap(s) == s + chunk_size

\* A window advance one token too long.
NextStart_Gap(s) == s + (chunk_size - chunk_overlap) + 1

\* A window advance of two strides.
NextStart_TwoStrides(s) == s + 2 * (chunk_size - chunk_overlap)

\* The window start of the next pass.
NextStart(s) == s + (chunk_size - chunk_overlap)

\* _chunk_text is entered: the text is tokenized and the loop set up.
ChunkTextCall ==
    /\ cpc = "idle"
    /\ \E toks \in SeqsUpTo(Vocab, MaxTokens), f \in Filenames, p \in Pages,
          pr \in {"normal", "rubric"} :
          /\ tokens' = toks
          /\ cargs' = [filename |-> f, page |-> p, file_type |-> "txt",
                       priority |-> pr, trusted |-> (pr = "rubric")]
    /\ start' = 0
    /\ chunk_idx' = 0
    /\ chunks' = <<>>
    /\ cpc' = "loop"
    /\ UNCHANGED <<chunk_size, chunk_overlap, ivars>>
    /\ UNCHANGED NotIngestor

\* One pass of `while start < len(tokens)`.
ChunkTextLoop ==
    /\ cpc = "loop"
    /\ start < Len(tokens)
    /\ chunk_idx < MaxChunks
    /\ chunks' = Append(chunks, MakeChunk(tokens, start, chunk_idx, cargs))
    /\ chunk_idx' = chunk_idx + 1
    /\ start' = NextStart(start)
    /\ UNCHANGED <<chunk_size, chunk_overlap, cpc, cargs, tokens, ivars>>
    /\ UNCHANGED NotIngestor

\* The loop's condition fails and the chunks are returned; a format handler
\* that made the call adds them to its list (chunks.extend, or its own
\* return of them).
ChunkTextReturn ==
    /\ cpc = "loop"
    /\ ~(start < Len(tokens))
    /\ cpc' = "done"
    /\ file_chunks' = IF ipc = "reading" THEN file_chunks \o chunks ELSE file_chunks
    /\ UNCHANGED <<chunk_size, chunk_overlap, cargs, tokens, start, chunk_idx, chunks>>
    /\ UNCHANGED <<ipc, ifile, page_num, blank_pages>>
    /\ UNCHANGED NotIngestor

ChunkerNext == ChunkTextCall \/ ChunkTextLoop \/ ChunkTextReturn

\* ------------------------------------------------------------- ingest_file

\* Most pages or slides read from one file.
MaxPages == 2

\* Longest text, in tokens, of one page, slide or file.
MaxUnitTokens == 2

\* The pieces the tokens of a file's text decode to: a word, a space and a
\* line break (the break also ends a paragraph or a shape's text).
IngestVocab == {<<"a">>, <<" ">>, <<"\n">>}

LineBreak == <<"\n">>

\* The texts a page, a slide or a whole file may hold, as token sequences.
PageTexts == SeqsUpTo(IngestVocab, MaxUnitTokens)

\* The base names of the paths ingest_file is called with.
IngestFilenames ==
    {<<"n", ".", "t", "x", "t">>,
     <<"n", ".", "P", "D", "F">>,
     <<"n", ".", "d", "o", "c", "x">>,
     <<"n", ".", "p", "p", "t", "x">>,
     <<"n", ".", "p", "n", "g">>,
     <<"n", ".", "m", "d">>}

\* The position of the last dot of a name, 0 without one.
LastDot(name) ==
    IF \E i \in 1..Len(name) : name[i] = "."
    THEN CHOOSE i \in 1..Len(name) :
             /\ name[i] = "."
             /\ \A j \in (i + 1)..Len(name) : name[j] # "."
    ELSE 0

\* os.path.splitext(filename)[1]: the name from its last dot on, empty when
\* the name has no dot past its first character.
SplitExt(name) ==
    IF LastDot(name) <= 1 THEN <<>> ELSE SubSeq(name, LastDot(name), Len(name))

\* The file_type a handler passes on, by extension; "image" for the image
\* handler and "" for an extension ingest_file rejects.
FileTypeOf(ext) ==
    IF ext = <<".", "p", "d", "f">> THEN "pdf"
    ELSE IF ext = <<".", "d", "o", "c", "x">> THEN "docx"
    ELSE IF ext = <<".", "p", "p", "t", "x">> THEN "pptx"
    ELSE IF ext \in {<<".", "t", "x", "t">>, <<".", "t", "e", "x", "t">>} THEN "txt"
    ELSE IF ext \in {<<".", "p", "n", "g">>, <<".", "j", "p", "g">>,
                     <<".", "j", "p", "e", "g">>} THEN "image"
    ELSE ""

\* A text without a character that is not whitespace: text.strip() is falsy.
IsBlankText(toks) == Strip(Decode(toks)) = <<>>

\* The paragraphs (or shape texts) of a text, cut at its line breaks.
RECURSIVE SplitLines(_, _)
SplitLines(toks, cur) ==
    IF toks = <<>> THEN <<cur>>
    ELSE IF Head(toks) = LineBreak
         THEN <<cur>> \o SplitLines(Tail(toks), <<>>)
         ELSE SplitLines(Tail(toks), Append(cur, Head(toks)))

\* The paragraphs kept: those with para.text.strip() truthy.
NonBlankParts(toks) ==
    SelectSeq(SplitLines(toks, <<>>), LAMBDA part : ~IsBlankText(part))

\* "\n".join(parts)
RECURSIVE JoinLines(_)
JoinLines(parts) ==
    IF parts = <<>> THEN <<>>
    ELSE IF Len(parts) = 1 THEN parts[1]
         ELSE parts[1] \o <<LineBreak>> \o JoinLines(Tail(parts))

\* What a handler does with the text of one page, slide or file: whether it
\* calls _chunk_text, and on which text.
UnitText(file_type, raw) ==
    IF file_type = "pdf" THEN [call |-> ~IsBlankText(raw), text |-> raw]
    ELSE IF file_type = "docx"
         THEN [call |-> TRUE, text |-> JoinLines(NonBlankParts(raw))]
    ELSE IF file_type = "pptx"
         THEN [call |-> NonBlankParts(raw) # <<>>, text |-> JoinLines(NonBlankParts(raw))]
    ELSE [call |-> TRUE, text |-> raw]

\* chunk_id=f"{filename}_img_1"
ImageChunkId(filename) == filename \o <<"_", "i", "m", "g", "_", "1">>

\* The placeholder chunk _ingest_image returns.
ImageChunk(file) ==
    [chunk_id |-> ImageChunkId(file.filename),
     filename |-> file.filename,
     page |-> 1,
     chunk_text |-> <<"[IMAGE: ">> \o file.filename \o <<" - requires OCR processing]">>,
     token_count |-> 0,
     chunk_index |-> 0,
     file_type |-> "image",
     priority |-> file.priority,
     trusted |-> file.trusted,
     chunk_tokens |-> <<>>]

\* The pages a handler reads: one text for a docx or txt file, each page or
\* slide of a pdf or pptx file.
MostUnits(file_type) == IF file_type \in {"docx", "txt"} THEN 1 ELSE MaxPages

LeastUnits(file_type) == IF file_type \in {"docx", "txt"} THEN 1 ELSE 0

\* ingest_file is entered and dispatches on the extension: a text format
\* starts its handler, an image returns its placeholder, anything else raises
\* ValueError.
IngestFileCall ==
    /\ ipc = "idle"
    /\ cpc = "idle"
    /\ \E f \in IngestFilenames, pr \in {"normal", "rubric"} :
          LET ext == Lower(SplitExt(f))
              file == [filename |-> f, ext |-> ext, priority |-> pr,
                       trusted |-> (pr = "rubric")]
          IN  /\ ifile' = file
              /\ IF FileTypeOf(ext) = "image"
                 THEN ipc' = "done" /\ file_chunks' = <<ImageChunk(file)>>
                 ELSE IF FileTypeOf(ext) = ""
                      THEN ipc' = "raised" /\ file_chunks' = <<>>
                      ELSE ipc' = "reading" /\ file_chunks' = <<>>
    /\ page_num' = 0
    /\ blank_pages' = {}
    /\ UNCHANGED <<chunk_size, chunk_overlap, cpc, cargs, tokens, start, chunk_idx, chunks>>
    /\ UNCHANGED NotIngestor

\* The handler reads the next page, slide or file text and, unless its
\* format's test skips it, enters _chunk_text on it.
IngestUnit ==
    /\ ipc = "reading"
    /\ cpc # "loop"
    /\ page_num < MostUnits(FileTypeOf(ifile.ext))
    /\ \E raw \in PageTexts :
          LET file_type == FileTypeOf(ifile.ext)
              unit == UnitText(file_type, raw)
              page == page_num + 1
          IN  /\ page_num' = page
              /\ blank_pages' = IF IsBlankText(raw) THEN blank_pages \cup {page}
                                ELSE blank_pages
              /\ IF unit.call
                 THEN /\ tokens' = unit.text
                      /\ cargs' = [filename |-> ifile.filename, page |-> page,
                                   file_type |-> file_type,
                                   priority |-> ifile.priority,
                                   trusted |-> ifile.trusted]
                      /\ start' = 0
                      /\ chunk_idx' = 0
                      /\ chunks' = <<>>
                      /\ cpc' = "loop"
                 ELSE UNCHANGED <<cpc, cargs, tokens, start, chunk_idx, chunks>>
    /\ UNCHANGED <<chunk_size, chunk_overlap, ipc, ifile, file_chunks>>
    /\ UNCHANGED NotIngestor

\* The handler has read the last page and returns its chunks.
IngestFileReturn ==
    /\ ipc = "reading"
    /\ cpc # "loop"
    /\ page_num >= LeastUnits(FileTypeOf(ifile.ext))
    /\ ipc' = "done"
    /\ UNCHANGED <<chunk_size, chunk_overlap, cpc, cargs, tokens, start, chunk_idx, chunks>>
    /\ UNCHANGED <<ifile, page_num, blank_pages, file_chunks>>
    /\ UNCHANGED NotIngestor

IngestNext ==
    IngestFileCall \/ IngestUnit \/ ChunkTextLoop \/ ChunkTextReturn \/ IngestFileReturn

\* The configurations ingest_file is followed under.
IngestConfigs == {<<2, 1>>, <<600, 100>>}

\* ------------------------------------------------- chunk ids, as a function

\* File names, pages and chunk indices chunk ids are derived for: names that
\* hold the id's own separators, and numbers of one and of two digits.
IdFilenames ==
    {<<"n", ".", "p", "d", "f">>,
     <<"n", "_", "p", "1", "_", "c", "0", ".", "p", "d", "f">>,
     <<"n", ".", "p", "n", "g">>,
     <<"n", ".", "p", "d", "f", "_", "p", "1", ".", "p", "n", "g">>}

IdPages == {1, 2, 11}

IdIndices == {0, 1, 10}

\* The chunks ingest_file can give a file: (page, chunk_index) of a window of
\* a page for a text format, the one placeholder for an image.
IdOrigins ==
    {[filename |-> f, page |-> p, chunk_index |-> i] :
        f \in {g \in IdFilenames : FileTypeOf(Lower(SplitExt(g))) = "pdf"},
        p \in IdPages, i \in IdIndices}
    \cup
    {[filename |-> f, page |-> 1, chunk_index |-> 0] :
        f \in {g \in IdFilenames : FileTypeOf(Lower(SplitExt(g))) = "image"}}

\* The chunk_id the ingestor gives the chunk of an origin.
DerivedChunkId(origin) ==
    IF FileTypeOf(Lower(SplitExt(origin.filename))) = "image"
    THEN ImageChunkId(origin.filename)
    ELSE ChunkId(origin.filename, origin.page, origin.chunk_index)

\* The ingestor builds one more chunk and derives its id.
DeriveChunkId ==
    /\ Len(derived) < 2
    /\ \E origin \in IdOrigins :
          derived' = Append(derived, [origin |-> origin,
                                      chunk_id |-> DerivedChunkId(origin)])
    /\ UNCHANGED NotDerivation

DerivationInit == derived = <<>>


\* --------------------------------------------------- validator: pure parts

\* The similarity at and above which the textual check reports HIGH.
HighConfidence == 85

\* Python's None, as a value of the sequence type the chunk ids have.
None == <<"None">>

\* The result message of a strict-mode refusal.
RefusalMessage == <<"No supported solution found in resources.">>

\* The result message of a strict-mode success.
StrictPassMessage == <<"All steps validated against resources.">>

\* f"{supported_count}/{total_count} steps supported by resources."
PreferMessage(supported_count, total_count) ==
    IntToStr(supported_count) \o <<"/">> \o IntToStr(total_count)
        \o <<" steps supported by resources.">>

\* The n-grams of a token list: ' '.join(tokens[i:i+n]) for i in
\* range(len(tokens) - n + 1).
NGrams(toks, n) == {JoinSpace(SubSeq(toks, i, i + n - 1)) : i \in 1..(Len(toks) - n + 1)}

\* An overlap count that counts the positions of the first text whose
\* 3-gram occurs in the second, not the distinct 3-grams in common.
ComputeNgramOverlap_CountPositions(text1, text2) ==
    LET tokens1 == Split(Lower(text1))
        tokens2 == Split(Lower(text2))
    IN  Cardinality({i \in 1..(Len(tokens1) - 2) :
                        JoinSpace(SubSeq(tokens1, i, i + 2)) \in NGrams(tokens2, 3)})

\* _compute_ngram_overlap with its default n = 3.
ComputeNgramOverlap(text1, text2) ==
    LET tokens1 == Split(Lower(text1))
        tokens2 == Split(Lower(text2))
    IN  Cardinality(NGrams(tokens1, 3) \cap NGrams(tokens2, 3))

\* np.argmax: the first index (from 1) of the largest similarity.
ArgMax(sims) ==
    CHOOSE i \in 1..Len(sims) :
        /\ \A j \in 1..Len(sims) : sims[j] <= sims[i]
        /\ \A j \in 1..(i - 1) : sims[j] < sims[i]

\* re.findall(r'\$([^\$]+)\$', text) from position i on.
RECURSIVE DollarMatches(_, _)
DollarMatches(text, i) ==
    IF i > Len(text) THEN <<>>
    ELSE IF text[i] # "$" THEN DollarMatches(text, i + 1)
    ELSE LET closers == {j \in (i + 1)..Len(text) : text[j] = "$"}
         IN  IF closers = {} THEN <<>>
             ELSE LET j == CHOOSE c \in closers : \A d \in closers : c <= d
                  IN  IF j = i + 1 THEN DollarMatches(text, i + 1)
                      ELSE <<SubSeq(text, i + 1, j - 1)>> \o DollarMatches(text, j + 1)

\* Whether the two characters at i, i+1 of text are the pair d.
PairAt(text, i, d) == i + 1 <= Len(text) /\ text[i] = d[1] /\ text[i + 1] = d[2]

\* re.findall of open(.+?)close for two-character delimiters, from
\* position i on: the shortest non-empty content without a newline.
RECURSIVE DelimitedMatches(_, _, _, _)
DelimitedMatches(text, open, close, i) ==
    IF i > Len(text) THEN <<>>
    ELSE IF ~PairAt(text, i, open) THEN DelimitedMatches(text, open, close, i + 1)
    ELSE LET ends == {j \in (i + 3)..Len(text) :
                         /\ PairAt(text, j, close)
                         /\ \A k \in (i + 2)..(j - 1) : text[k] # "\n"}
         IN  IF ends = {} THEN DelimitedMatches(text, open, close, i + 1)
             ELSE LET j == CHOOSE c \in ends : \A d \in ends : c <= d
                  IN  <<SubSeq(text, i + 2, j - 1)>>
                          \o DelimitedMatches(text, open, close, j + 2)

\* The character class of equation_pattern: [a-zA-Z0-9\s\+\-\*/\^=\(\)\.]
EquationChars ==
    Range(UpperCase) \cup Range(LowerCase) \cup Digits \cup Whitespace
        \cup {"+", "-", "*", "/", "^", "=", "(", ")", "."}

\* re.findall(equation_pattern, text) from position i on.  A match starts
\* at the first character of a maximal run of class characters that has an
\* "=" strictly inside it, and being greedy it is the whole run.
RECURSIVE EquationMatches(_, _)
EquationMatches(text, i) ==
    IF i > Len(text) THEN <<>>
    ELSE IF text[i] \notin EquationChars THEN EquationMatches(text, i + 1)
    ELSE LET stops == {j \in i..Len(text) : text[j] \notin EquationChars}
             e == IF stops = {} THEN Len(text)
                  ELSE (CHOOSE c \in stops : \A d \in stops : c <= d) - 1
         IN  IF \E j \in (i + 1)..(e - 1) : text[j] = "="
             THEN <<SubSeq(text, i, e)>> \o EquationMatches(text, e + 1)
             ELSE EquationMatches(text, e + 1)

\* The elements of a list of strings stripped, the empty ones dropped.
RECURSIVE StripNonEmpty(_)
StripNonEmpty(exprs) ==
    IF exprs = <<>> THEN <<>>
    ELSE IF Strip(Head(exprs)) = <<>> THEN StripNonEmpty(Tail(exprs))
         ELSE <<Strip(Head(exprs))>> \o StripNonEmpty(Tail(exprs))

\* _extract_math_expressions
ExtractMathExpressions(text) ==
    StripNonEmpty(DollarMatches(text, 1)
                  \o DelimitedMatches(text, <<"\\", "[">>, <<"\\", "]">>, 1)
                  \o DelimitedMatches(text, <<"\\", "(">>, <<"\\", ")">>, 1)
                  \o EquationMatches(text, 1))

\* A normalization that keeps the whitespace.
NormalizeExpression_KeepWhitespace(expr) == RemoveChars(Lower(expr), {"*", "×"})

\* _normalize_expression: whitespace removed, lowercased, the
\* multiplication glyphs removed.
NormalizeExpression(expr) ==
    RemoveChars(Lower(RemoveChars(expr, Whitespace)), {"*", "×"})

\* _are_symbolically_equivalent.  An expression with an "=" in it never
\* gets through the sympy path (an equation is no operand of a difference,
\* and sympify rejects "="), so the normalized strings are compared.  For a
\* pair free of "=", sympy is the verdict the library gives: "zero" (the
\* difference simplifies to 0), "nonzero", or "raises" (then the normalized
\* strings are compared); equal strings that parse have difference 0.
AreSymbolicallyEquivalent(expr1, expr2, sympy) ==
    IF "=" \in Range(expr1) \/ "=" \in Range(expr2) \/ sympy = "raises"
    THEN NormalizeExpression(expr1) = NormalizeExpression(expr2)
    ELSE expr1 = expr2 \/ sympy = "zero"

\* f"chunk_{i}" for the 0-based position i of a chunk in the list.
SymbolicChunkId(i) == <<"c", "h", "u", "n", "k", "_">> \o IntToStr(i)

\* _check_symbolic_support: the first chunk, in list order, one of whose
\* expressions is equivalent to one of the step's.
CheckSymbolicSupport(step_text, chunk_texts, sympy) ==
    LET step_expressions == ExtractMathExpressions(step_text)
        matches(i) ==
            \E se \in Range(step_expressions) :
                \E ce \in Range(ExtractMathExpressions(chunk_texts[i])) :
                    AreSymbolicallyEquivalent(se, ce, sympy)
        hits == {i \in 1..Len(chunk_texts) : matches(i)}
    IN  IF step_expressions = <<>> \/ hits = {}
        THEN [supported |-> FALSE, confidence |-> "LOW", chunk_id |-> None]
        ELSE [supported |-> TRUE, confidence |-> "HIGH",
              chunk_id |-> SymbolicChunkId((CHOOSE i \in hits : \A j \in hits : i <= j) - 1)]

\* The confidence bucket of a best similarity.
ConfidenceOf(best_similarity, threshold) ==
    IF best_similarity >= HighConfidence THEN "HIGH"
    ELSE IF best_similarity >= threshold THEN "MEDIUM"
    ELSE "LOW"

\* A textual check that takes the overlap of whichever chunk has the most.
CheckTextualSupport_AnyChunk(step_text, chunk_texts, chunks_metadata, sims, threshold, min_overlap) ==
    IF chunk_texts = <<>>
    THEN [supported |-> FALSE, similarity |-> 0, token_overlap |-> 0,
          confidence |-> "LOW", chunk_id |-> None]
    ELSE LET best_idx == ArgMax(sims)
             overlap == ComputeNgramOverlap(step_text, chunk_texts[best_idx])
         IN  [supported |-> (/\ sims[best_idx] >= threshold
                             /\ \E i \in 1..Len(chunk_texts) :
                                   ComputeNgramOverlap(step_text, chunk_texts[i])
                                       >= min_overlap),
              similarity |-> sims[best_idx],
              token_overlap |-> overlap,
              confidence |-> ConfidenceOf(sims[best_idx], threshold),
              chunk_id |-> chunks_metadata[best_idx].chunk_id]

\* A textual check whose confidence drops to LOW when the overlap gate fails.
CheckTextualSupport_GatedConfidence(step_text, chunk_texts, chunks_metadata, sims, threshold, min_overlap) ==
    IF chunk_texts = <<>>
    THEN [supported |-> FALSE, similarity |-> 0, token_overlap |-> 0,
          confidence |-> "LOW", chunk_id |-> None]
    ELSE LET best_idx == ArgMax(sims)
             overlap == ComputeNgramOverlap(step_text, chunk_texts[best_idx])
         IN  [supported |-> (sims[best_idx] >= threshold /\ overlap >= min_overlap),
              similarity |-> sims[best_idx],
              token_overlap |-> overlap,
              confidence |-> IF overlap >= min_overlap
                             THEN ConfidenceOf(sims[best_idx], threshold)
                             ELSE "LOW",
              chunk_id |-> chunks_metadata[best_idx].chunk_id]

\* _check_textual_support, given the cosine similarities of the step to
\* the chunks (the encoder's part).  threshold and min_overlap are the
\* validator's sim_threshold and min_ngram_overlap.
CheckTextualSupport(step_text, chunk_texts, chunks_metadata, sims, threshold, min_overlap) ==
    IF chunk_texts = <<>>
    THEN [supported |-> FALSE, similarity |-> 0, token_overlap |-> 0,
          confidence |-> "LOW", chunk_id |-> None]
    ELSE LET best_idx == ArgMax(sims)
             best_similarity == sims[best_idx]
             best_chunk == chunk_texts[best_idx]
             overlap == ComputeNgramOverlap(step_text, best_chunk)
         IN  [supported |-> (best_similarity >= threshold /\ overlap >= min_overlap),
              similarity |-> best_similarity,
              token_overlap |-> overlap,
              confidence |-> ConfidenceOf(best_similarity, threshold),
              chunk_id |-> chunks_metadata[best_idx].chunk_id]

\* A combination in which the symbolic check takes precedence.
ValidateStep_SymbolicFirst(text_support, symbolic_support) ==
    IF symbolic_support.supported
    THEN [supported |-> TRUE, support_type |-> "symbolic",
          confidence |-> symbolic_support.confidence,
          best_similarity |-> 0,
          best_chunk_id |-> symbolic_support.chunk_id]
    ELSE IF text_support.supported
    THEN [supported |-> TRUE, support_type |-> "textual",
          confidence |-> text_support.confidence,
          best_similarity |-> text_support.similarity,
          best_chunk_id |-> text_support.chunk_id]
    ELSE [supported |-> FALSE, support_type |-> "none",
          confidence |-> "LOW",
          best_similarity |-> text_support.similarity,
          best_chunk_id |-> text_support.chunk_id]

\* _validate_step, from the results of its two checks.
ValidateStep(text_support, symbolic_support) ==
    IF text_support.supported
    THEN [supported |-> TRUE, support_type |-> "textual",
          confidence |-> text_support.confidence,
          best_similarity |-> text_support.similarity,
          best_chunk_id |-> text_support.chunk_id]
    ELSE IF symbolic_support.supported
    THEN [supported |-> TRUE, support_type |-> "symbolic",
          confidence |-> symbolic_support.confidence,
          best_similarity |-> 0,
          best_chunk_id |-> symbolic_support.chunk_id]
    ELSE [supported |-> FALSE, support_type |-> "none",
          confidence |-> "LOW",
          best_similarity |-> text_support.similarity,
          best_chunk_id |-> text_support.chunk_id]

\* The number of supported entries of a list of step validations.
SupportedCount(results) == Cardinality({k \in 1..Len(results) : results[k].supported})

\* ------------------------------------------------ validator: state machine

\* Longest list of solution steps a call is given.
MaxSteps == 3

\* The configurations a validator is constructed with: the defaults, and
\* the one of the test suite.
ValidatorConfigs ==
    {[sim_threshold |-> 78, min_ngram_overlap |-> 6],
     [sim_threshold |-> 75, min_ngram_overlap |-> 4]}

\* The cosine similarities the encoder may give a step and a chunk: below
\* every threshold, at the default threshold, at the HIGH mark.
SimLevels == {50, 78, 85}

\* "strict", "prefer", and a mode string that is neither.
Modes == {"strict", "prefer", "lenient"}

\* The verdicts of the sympy path on a pair of expressions free of "=".
SympyVerdicts == {"zero", "nonzero", "raises"}

\* The verdicts sympy may give in a step's symbolic check: it has a say only
\* when the step and some chunk each hold an expression free of "=".
SympyVerdictsFor(step_text, chunk_texts) ==
    IF /\ \E se \in Range(ExtractMathExpressions(step_text)) : "=" \notin Range(se)
       /\ \E i \in 1..Len(chunk_texts) :
             \E ce \in Range(ExtractMathExpressions(chunk_texts[i])) : "=" \notin Range(ce)
    THEN SympyVerdicts
    ELSE {"raises"}

\* "n.txt"
SourceFile == <<"n", ".", "t", "x", "t">>

\* "a b c  d e f g h $x=b$": eight words and an inline equation.
ChunkTextMain ==
    <<"a", " ", "b", " ", "c", " ", " ", "d", " ", "e", " ", "f", " ", "g", " ", "h",
      " ", "$", "x", "=", "b", "$">>

\* "h g f e $x=a$": other words and another equation.
ChunkTextOther == <<"h", " ", "g", " ", "f", " ", "e", " ", "$", "x", "=", "a", "$">>

ChunkMain == [chunk_id |-> ChunkId(SourceFile, 1, 0), chunk_text |-> ChunkTextMain]

ChunkOther == [chunk_id |-> ChunkId(SourceFile, 1, 1), chunk_text |-> ChunkTextOther]

\* The retrieved chunk lists a call is given.
ChunkLists == {<<>>, <<ChunkOther, ChunkMain>>}

\* The steps a call is given: text, citations, unsupported marker.
StepInputs ==
    {\* " \n": a whitespace-only step
     [text |-> <<" ", "\n">>, citations |-> <<>>, unsupported |-> FALSE],
     \* "A b c d e f = g": four 3-grams of the main chunk, and as a whole
     \* an equation of no chunk
     [text |-> <<"A", " ", "b", " ", "c", " ", "d", " ", "e", " ", "f", " ", "=", " ", "g">>,
      citations |-> <<"[doc:n.txt | p:1 | chunk:n.txt_p1_c0]">>, unsupported |-> FALSE],
     \* "a B c d e f $x=b$": four 3-grams of the main chunk, and its equation
     [text |-> <<"a", " ", "B", " ", "c", " ", "d", " ", "e", " ", "f", " ",
                 "$", "x", "=", "b", "$">>,
      citations |-> <<>>, unsupported |-> TRUE]}

NoLocals ==
    [step_text |-> <<>>, similarities |-> <<>>,
     text_support |-> [supported |-> FALSE, similarity |-> 0, token_overlap |-> 0,
                       confidence |-> "LOW", chunk_id |-> None],
     symbolic_support |-> [supported |-> FALSE, confidence |-> "LOW", chunk_id |-> None]]

\* The least cosine similarity there is, -1.00.
LeastSimilarity == 0 - 100

Max(a, b) == IF a > b THEN a ELSE b

NoResult ==
    [status |-> "", message |-> <<>>, mode |-> "", all_supported |-> FALSE,
     step_validations |-> <<>>, total_steps |-> 0, supported_steps |-> 0]

\* StepValidator.__init__
ValidatorInit ==
    /\ \E c \in ValidatorConfigs :
          /\ sim_threshold = c.sim_threshold
          /\ min_ngram_overlap = c.min_ngram_overlap
    /\ vpc = "idle"
    /\ mode = ""
    /\ retrieved_chunks = <<>>
    /\ solution_steps = <<>>
    /\ validation_results = <<>>
    /\ all_supported = FALSE
    /\ step_locals = NoLocals
    /\ result = NoResult
    /\ max_text_similarity = LeastSimilarity
    /\ validation_log = <<>>

\* validate_solution is entered with its mode and chunks.
ValidateSolutionCall ==
    /\ vpc = "idle"
    /\ mode' \in Modes
    /\ retrieved_chunks' \in ChunkLists
    /\ solution_steps' = <<>>
    /\ validation_results' = <<>>
    /\ all_supported' = TRUE
    /\ vpc' = "loop"
    /\ max_text_similarity' = LeastSimilarity
    /\ UNCHANGED <<sim_threshold, min_ngram_overlap, step_locals, result, validation_log>>
    /\ UNCHANGED NotValidator

\* The entry validate_solution appends for a step.
StepValidation(step, step_validation) ==
    [step_num |-> step.step_num,
     step_text |-> step.text,
     supported |-> step_validation.supported,
     support_type |-> step_validation.support_type,
     confidence |-> step_validation.confidence,
     best_match_similarity |-> step_validation.best_similarity,
     best_match_chunk |-> step_validation.best_chunk_id,
     citations_found |-> step.citations,
     unsupported_flag |-> step.unsupported]

\* An all_supported flag that keeps only the latest step's outcome.
UpdateAllSupported_LatestOnly(all_sup, supported) == supported

\* `if not step_validation['supported']: all_supported = False`
UpdateAllSupported(all_sup, supported) == IF ~supported THEN FALSE ELSE all_sup

\* A step whose text is whitespace only, which the loop skips.
IsEmptyStep_NoStrip(step_text) == step_text = <<>>

\* `not step_text.strip()`: the step the loop skips.
IsEmptyStep(step_text) == Strip(step_text) = <<>>

\* One pass of `for step in solution_steps`.  The list is read one element
\* a pass, so the model draws the element when the pass reads it; the
\* encoder's similarities and sympy's verdict are drawn with it.
ValidateSolutionLoop ==
    /\ vpc = "loop"
    /\ Len(solution_steps) < MaxSteps
    /\ \E input \in StepInputs :
          LET step == [step_num |-> Len(solution_steps) + 1, text |-> input.text,
                       citations |-> input.citations, unsupported |-> input.unsupported]
              chunk_texts == [i \in 1..Len(retrieved_chunks) |-> retrieved_chunks[i].chunk_text]
          IN  /\ solution_steps' = Append(solution_steps, step)
              /\ IF IsEmptyStep(step.text)
                 THEN UNCHANGED <<validation_results, all_supported, step_locals,
                                  max_text_similarity>>
                 ELSE \E sympy \in SympyVerdictsFor(step.text, chunk_texts) :
                      LET symbolic_support ==
                              CheckSymbolicSupport(step.text, chunk_texts, sympy)
                      IN  \E sims \in [1..Len(retrieved_chunks) -> SimLevels] :
                             LET text_support ==
                                     CheckTextualSupport(step.text, chunk_texts,
                                                         retrieved_chunks, sims,
                                                         sim_threshold, min_ngram_overlap)
                                 step_validation ==
                                     ValidateStep(text_support, symbolic_support)
                             IN  /\ step_locals' = [step_text |-> step.text,
                                                    similarities |-> sims,
                                                    text_support |-> text_support,
                                                    symbolic_support |-> symbolic_support]
                                 /\ validation_results' =
                                        Append(validation_results,
                                               StepValidation(step, step_validation))
                                 /\ all_supported' =
                                        UpdateAllSupported(all_supported,
                                                           step_validation.supported)
                                 /\ max_text_similarity' =
                                        Max(max_text_similarity, text_support.similarity)
    /\ UNCHANGED <<sim_threshold, min_ngram_overlap, vpc, mode, retrieved_chunks,
                   result, validation_log>>
    /\ UNCHANGED NotValidator

\* A mode policy under which strict mode refuses a call without a non-empty
\* step.
Verdict_EmptyRefused(m, all_sup, results) ==
    IF m = "strict" /\ (~all_sup \/ Len(results) = 0)
    THEN [status |-> "FAILED", message |-> RefusalMessage]
    ELSE IF m = "strict" /\ all_sup
    THEN [status |-> "PASSED", message |-> StrictPassMessage]
    ELSE [status |-> IF SupportedCount(results) < Len(results) THEN "PARTIAL" ELSE "PASSED",
          message |-> PreferMessage(SupportedCount(results), Len(results))]

\* A mode policy that gives strict mode partial credit.
Verdict_StrictPartial(m, all_sup, results) ==
    IF m = "strict" /\ ~all_sup /\ SupportedCount(results) = 0
    THEN [status |-> "FAILED", message |-> RefusalMessage]
    ELSE IF m = "strict" /\ all_sup
    THEN [status |-> "PASSED", message |-> StrictPassMessage]
    ELSE [status |-> IF SupportedCount(results) < Len(results) THEN "PARTIAL" ELSE "PASSED",
          message |-> PreferMessage(SupportedCount(results), Len(results))]

\* A mode policy under which prefer mode refuses when nothing is supported.
Verdict_PreferRefuses(m, all_sup, results) ==
    IF (m = "strict" /\ ~all_sup) \/ (Len(results) > 0 /\ SupportedCount(results) = 0)
    THEN [status |-> "FAILED", message |-> RefusalMessage]
    ELSE IF m = "strict" /\ all_sup
    THEN [status |-> "PASSED", message |-> StrictPassMessage]
    ELSE [status |-> IF SupportedCount(results) < Len(results) THEN "PARTIAL" ELSE "PASSED",
          message |-> PreferMessage(SupportedCount(results), Len(results))]

\* The status and message of a call (the mode policy).
Verdict(m, all_sup, results) ==
    IF m = "strict" /\ ~all_sup
    THEN [status |-> "FAILED", message |-> RefusalMessage]
    ELSE IF m = "strict" /\ all_sup
    THEN [status |-> "PASSED", message |-> StrictPassMessage]
    ELSE LET supported_count == SupportedCount(results)
             total_count == Len(results)
         IN  [status |-> IF supported_count < total_count THEN "PARTIAL" ELSE "PASSED",
              message |-> PreferMessage(supported_count, total_count)]

\* The dictionary validate_solution builds after the loop.
BuildResult(m, all_sup, results) ==
    [status |-> Verdict(m, all_sup, results).status,
     message |-> Verdict(m, all_sup, results).message,
     mode |-> m,
     all_supported |-> all_sup,
     step_validations |-> results,
     total_steps |-> Len(results),
     supported_steps |-> SupportedCount(results)]

\* The record _log_validation writes.
LogEntry(r) ==
    [status |-> r.status, mode |-> r.mode, total_steps |-> r.total_steps,
     supported_steps |-> r.supported_steps, step_details |-> r.step_validations]

\* The list is exhausted: the result is built, logged and returned.  The
\* write to the log file may fail, and _log_validation catches nothing:
\* validate_solution then raises instead of returning.
ValidateSolutionFinish ==
    /\ vpc = "loop"
    /\ LET r == BuildResult(mode, all_supported, validation_results)
       IN  \E log_ok \in BOOLEAN :
              IF log_ok
              THEN /\ validation_log' = Append(validation_log, LogEntry(r))
                   /\ result' = r
                   /\ vpc' = "done"
              ELSE /\ vpc' = "raised"
                   /\ UNCHANGED <<validation_log, result>>
    /\ UNCHANGED <<sim_threshold, min_ngram_overlap, mode, retrieved_chunks, solution_steps,
                   validation_results, all_supported, step_locals, max_text_similarity>>
    /\ UNCHANGED NotValidator

ValidatorNext == ValidateSolutionCall \/ ValidateSolutionLoop \/ ValidateSolutionFinish

\* --------------------------------------------------------------- retriever

\* Largest top_k a retriever is constructed or called with.
MaxTopK == 2

\* Largest window_size get_context_window is called with.
MaxWindow == 2

\* The top_k argument left at its default, None.
NoTopK == 0 - 1

\* The distances collection.query reports, in hundredths.  The collection is
\* created with the backend's default metric, whose distances are not
\* bounded by 1.
DistanceLevels == {0, 50, 100, 150}

\* A name with the separator of the chunk index in it.
RubricFile == <<"r", "_", "c", ".", "p", "d", "f">>

PlainFile == <<"n", ".", "p", "d", "f">>

\* A chunk as index_chunks stores it: id, document and metadata.
IndexedChunk(filename, page, idx, priority, trusted) ==
    [chunk_id |-> ChunkId(filename, page, idx),
     chunk_text |-> <<"a">>,
     metadata |-> [filename |-> filename, page |-> page, chunk_index |-> idx,
                   priority |-> priority, trusted |-> trusted]]

\* The chunks of one page of a file, indexed in production order.
IndexedPage(filename, page, count, priority, trusted) ==
    [i \in 1..count |-> IndexedChunk(filename, page, i - 1, priority, trusted)]

\* The collections retrieval runs on: nothing indexed, one plain file, and
\* the plain file beside a trusted rubric.
Collections ==
    {<<>>,
     IndexedPage(PlainFile, 1, 3, "normal", FALSE),
     IndexedPage(PlainFile, 1, 3, "normal", FALSE)
        \o IndexedPage(RubricFile, 1, 2, "rubric", TRUE)}

\* priority_weights.get(priority, 1.0), in tenths.
PriorityWeight(priority) ==
    IF priority = "rubric" THEN 13
    ELSE IF priority = "slides" THEN 12
    ELSE IF priority = "textbook" THEN 11
    ELSE 10

\* boost: the priority weight, times 1.1 for a trusted source; in hundredths.
Boost(metadata) ==
    IF metadata.trusted THEN PriorityWeight(metadata.priority) * 11
    ELSE PriorityWeight(metadata.priority) * 10

\* The chunk_data retrieve builds of hit i of the query.
ChunkData(chunk, distance, i) ==
    [chunk_id |-> chunk.chunk_id,
     chunk_text |-> chunk.chunk_text,
     metadata |-> chunk.metadata,
     distance |-> distance,
     similarity |-> 100 - distance,
     rank |-> i]

\* x put into a list that is sorted by descending boosted similarity,
\* behind the elements it does not beat: list.sort(reverse=True) keeps equal
\* keys in their order.
RECURSIVE InsertDescending(_, _)
InsertDescending(sorted, x) ==
    IF sorted = <<>> THEN <<x>>
    ELSE IF Head(sorted).boosted_similarity >= x.boosted_similarity
         THEN <<Head(sorted)>> \o InsertDescending(Tail(sorted), x)
         ELSE <<x>> \o sorted

\* chunks.sort(key=lambda x: x['boosted_similarity'], reverse=True)
RECURSIVE SortDescending(_)
SortDescending(seq) ==
    IF seq = <<>> THEN <<>>
    ELSE InsertDescending(SortDescending(SubSeq(seq, 1, Len(seq) - 1)), seq[Len(seq)])

\* The boosted scores, without the sort that follows them.
ApplyPriorityBoost_NoSort(hits) ==
    LET boosted == [i \in 1..Len(hits) |->
                       [chunk_id |-> hits[i].chunk_id,
                        chunk_text |-> hits[i].chunk_text,
                        metadata |-> hits[i].metadata,
                        distance |-> hits[i].distance,
                        similarity |-> hits[i].similarity,
                        rank |-> hits[i].rank,
                        boosted_similarity |-> hits[i].similarity * Boost(hits[i].metadata),
                        priority_boost |-> Boost(hits[i].metadata)]]
    IN  [i \in 1..Len(boosted) |-> [boosted[i] EXCEPT !.rank = i - 1]]

\* _apply_priority_boost: the boosted score of every hit, the sort by it,
\* the ranks of the new order.
ApplyPriorityBoost(hits) ==
    LET boosted == [i \in 1..Len(hits) |->
                       [chunk_id |-> hits[i].chunk_id,
                        chunk_text |-> hits[i].chunk_text,
                        metadata |-> hits[i].metadata,
                        distance |-> hits[i].distance,
                        similarity |-> hits[i].similarity,
                        rank |-> hits[i].rank,
                        boosted_similarity |-> hits[i].similarity * Boost(hits[i].metadata),
                        priority_boost |-> Boost(hits[i].metadata)]]
        sorted == SortDescending(boosted)
    IN  [i \in 1..Len(sorted) |-> [sorted[i] EXCEPT !.rank = i - 1]]

\* The record _log_retrieval writes.
RetrievalLogEntry(returned) ==
    [top_k |-> Len(returned),
     results |-> [i \in 1..Len(returned) |->
                     [rank |-> returned[i].rank, chunk_id |-> returned[i].chunk_id]]]

NoRetrieveArgs == [k |-> 0, priority_boost |-> FALSE]

NoWindowArgs == [chunk_id |-> <<>>, window_size |-> 0, fetch_ok |-> TRUE]

\* DocumentRetriever.__init__ over an indexer whose collection is any of
\* Collections.
RetrieverInit ==
    /\ collection \in Collections
    /\ top_k \in 1..MaxTopK
    /\ rpc = "idle"
    /\ rargs = NoRetrieveArgs
    /\ backend_hits = <<>>
    /\ retrieve_result = <<>>
    /\ retrieval_log = <<>>
    /\ wpc = "idle"
    /\ wargs = NoWindowArgs
    /\ context_window = <<>>

\* The result lists collection.query may give for n_results: at most
\* n_results different chunks of the collection (fewer under a filter), with
\* their distances ascending.
QueryResults(n_results) ==
    LET most == Min(n_results, Len(collection))
    IN  UNION {
          {[i \in 1..n |-> [chunk |-> collection[order[i]], distance |-> dists[i]]] :
              order \in {o \in [1..n -> 1..Len(collection)] :
                            \A i, j \in 1..n : i # j => o[i] # o[j]},
              dists \in {d \in [1..n -> DistanceLevels] :
                            \A i \in 1..(n - 1) : d[i] <= d[i + 1]}}
          : n \in 0..most}

\* retrieve, whole: the query, the chunk_data of each hit, the boost, the cut
\* to k, the log record, the return.  The write of the log record may fail,
\* and _log_retrieval catches nothing: retrieve then raises.
Retrieve ==
    /\ rpc = "idle"
    /\ \E arg \in {NoTopK} \cup (1..MaxTopK), priority_boost \in BOOLEAN :
          LET k == IF arg # NoTopK THEN arg ELSE top_k
              n_results == IF priority_boost THEN k * 2 ELSE k
          IN  \E results \in QueryResults(n_results), log_ok \in BOOLEAN :
                 LET retrieved == [i \in 1..Len(results) |->
                                      ChunkData(results[i].chunk, results[i].distance, i - 1)]
                     reranked == IF priority_boost /\ retrieved # <<>>
                                 THEN ApplyPriorityBoost(retrieved)
                                 ELSE retrieved
                     limited == Slice(reranked, 0, k)
                 IN  /\ rargs' = [k |-> k, priority_boost |-> priority_boost]
                     /\ backend_hits' = retrieved
                     /\ IF log_ok
                        THEN /\ retrieval_log' = Append(retrieval_log,
                                                        RetrievalLogEntry(limited))
                             /\ retrieve_result' = limited
                             /\ rpc' = "returned"
                        ELSE /\ rpc' = "raised"
                             /\ UNCHANGED <<retrieval_log, retrieve_result>>
    /\ UNCHANGED <<collection, top_k, wpc, wargs, context_window>>
    /\ UNCHANGED NotRetriever

\* chunk_id.split('_c'): the pieces between the occurrences of "_c", read
\* from the left.  cur is the piece being read.
RECURSIVE SplitOnIndexMark(_, _)
SplitOnIndexMark(s, cur) ==
    IF s = <<>> THEN <<cur>>
    ELSE IF Len(s) >= 2 /\ s[1] = "_" /\ s[2] = "c"
         THEN <<cur>> \o SplitOnIndexMark(SubSeq(s, 3, Len(s)), <<>>)
         ELSE SplitOnIndexMark(Tail(s), Append(cur, Head(s)))

\* Whether int(s) takes s: a run of decimal digits.
IsDecimal(s) == s # <<>> /\ \A i \in 1..Len(s) : s[i] \in Digits

DigitValue(c) == CHOOSE d \in 0..9 : Digit(d) = c

\* int(s) of a run of decimal digits.
RECURSIVE StrToInt(_)
StrToInt(s) ==
    IF s = <<>> THEN 0
    ELSE StrToInt(SubSeq(s, 1, Len(s) - 1)) * 10 + DigitValue(s[Len(s)])

\* The ids get_context_window asks the collection for: the target's own and
\* those of the indices within window_size of it that are not negative.
AdjacentIds(chunk_id, base, chunk_index, window_size) ==
    LET offsets == [i \in 1..(2 * window_size + 1) |-> i - 1 - window_size]
        kept == SelectSeq(offsets, LAMBDA offset : offset = 0 \/ chunk_index + offset >= 0)
    IN  [i \in 1..Len(kept) |->
            IF kept[i] = 0 THEN chunk_id
            ELSE base \o <<"_", "c">> \o IntToStr(chunk_index + kept[i])]

\* collection.get(ids=...): the chunks of the collection with one of the
\* ids, as chunk_data with their ranks.
FetchByIds(ids) ==
    LET found == SelectSeq(collection, LAMBDA c : c.chunk_id \in Range(ids))
    IN  [i \in 1..Len(found) |->
            [chunk_id |-> found[i].chunk_id,
             chunk_text |-> found[i].chunk_text,
             metadata |-> found[i].metadata,
             rank |-> i - 1]]

\* The chunk ids get_context_window is called with: those of the indexed
\* chunks, one of a chunk that is not indexed, and one of an image.
WindowTargets ==
    {collection[i].chunk_id : i \in 1..Len(collection)}
        \cup {ChunkId(PlainFile, 1, 7), ImageChunkId(<<"n", ".", "p", "n", "g">>)}

\* get_context_window, whole: the id is parsed, the adjacent ids built and
\* fetched.  An id that does not split in two at "_c" gives the empty list;
\* a failure of the fetch is caught and gives the empty list as well.
GetContextWindow ==
    /\ wpc = "idle"
    /\ \E chunk_id \in WindowTargets, window_size \in 0..MaxWindow, fetch_ok \in BOOLEAN :
          LET parts == SplitOnIndexMark(chunk_id, <<>>)
          IN  /\ wargs' = [chunk_id |-> chunk_id, window_size |-> window_size,
                           fetch_ok |-> fetch_ok]
              /\ IF Len(parts) # 2
                 THEN context_window' = <<>> /\ wpc' = "returned"
                 ELSE IF ~IsDecimal(parts[2])
                      THEN context_window' = <<>> /\ wpc' = "raised"
                      ELSE /\ context_window' =
                                IF fetch_ok
                                THEN FetchByIds(AdjacentIds(chunk_id, parts[1],
                                                            StrToInt(parts[2]), window_size))
                                ELSE <<>>
                           /\ wpc' = "returned"
    /\ UNCHANGED <<collection, top_k, rpc, rargs, backend_hits, retrieve_result,
                   retrieval_log>>
    /\ UNCHANGED NotRetriever

RetrieverNext == Retrieve \/ GetContextWindow

\* ------------------------------------------------------------------ parser

\* Most lines of a solution text.
MaxLines == 3

\* Whether sub occurs in s at position i.
OccursAt(s, sub, i) ==
    /\ i + Len(sub) - 1 <= Len(s)
    /\ SubSeq(s, i, i + Len(sub) - 1) = sub

\* sub in s
Contains(s, sub) == \E i \in 1..Len(s) : OccursAt(s, sub, i)

UnsupportedMarker ==
    <<"(", "U", "N", "S", "U", "P", "P", "O", "R", "T", "E", "D", ")">>

\* re.findall(r'\[doc:[^\]]+\]', text): from the left, each "[doc:" that is
\* followed by at least one character other than "]" and then by a "]";
\* the search goes on behind a match.
RECURSIVE FindCitations(_, _)
FindCitations(text, from) ==
    IF from > Len(text) THEN <<>>
    ELSE IF /\ OccursAt(text, <<"[", "d", "o", "c", ":">>, from)
            /\ from + 5 <= Len(text)
            /\ text[from + 5] # "]"
            /\ \E close \in (from + 6)..Len(text) : text[close] = "]"
         THEN LET close == CHOOSE c \in (from + 6)..Len(text) :
                               /\ text[c] = "]"
                               /\ \A d \in (from + 6)..(c - 1) : text[d] # "]"
              IN  <<SubSeq(text, from, close)>> \o FindCitations(text, close + 1)
         ELSE FindCitations(text, from + 1)

\* _extract_citations
ExtractCitations(text) == FindCitations(text, 1)

\* "\n".join(current_step), of lines that are character sequences.
RECURSIVE JoinNewline(_)
JoinNewline(lines) ==
    IF lines = <<>> THEN <<>>
    ELSE IF Len(lines) = 1 THEN lines[1]
         ELSE lines[1] \o <<"\n">> \o JoinNewline(Tail(lines))

\* A flush that never raises the unsupported flag.
FlushedStep_NeverUnsupported(step_num, current_step) ==
    [step_num |-> step_num,
     text |-> JoinNewline(current_step),
     citations |-> ExtractCitations(JoinNewline(current_step)),
     unsupported |-> FALSE]

\* The step a flush appends: the buffer's lines joined, under the counter
\* as it stands.
FlushedStep(step_num, current_step) ==
    [step_num |-> step_num,
     text |-> JoinNewline(current_step),
     citations |-> ExtractCitations(JoinNewline(current_step)),
     unsupported |-> Contains(JoinNewline(current_step), UnsupportedMarker)]

\* line[0].isdigit() and ('. ' in line or ') ' in line), of a trimmed line
\* that is not empty.
IsNumberedStep(line) ==
    /\ line[1] \in Digits
    /\ (Contains(line, <<".", " ">>) \/ Contains(line, <<")", " ">>))

\* The loop over the lines and the flush behind it.
RECURSIVE ParseLines(_, _, _, _)
ParseLines(lines, steps, current_step, step_num) ==
    IF lines = <<>>
    THEN (IF current_step # <<>>
          THEN Append(steps, FlushedStep(step_num, current_step))
          ELSE steps)
    ELSE LET line == Strip(Head(lines))
         IN  IF line = <<>>
             THEN (IF current_step # <<>>
                   THEN ParseLines(Tail(lines),
                                   Append(steps, FlushedStep(step_num, current_step)),
                                   <<>>, step_num)
                   ELSE ParseLines(Tail(lines), steps, current_step, step_num))
             ELSE IF IsNumberedStep(line)
                  THEN ParseLines(Tail(lines),
                                  IF current_step # <<>>
                                  THEN Append(steps, FlushedStep(step_num, current_step))
                                  ELSE steps,
                                  <<line>>, step_num + 1)
                  ELSE ParseLines(Tail(lines), steps, Append(current_step, line), step_num)

\* parse_solution_steps, on the lines of the text.
ParseSolutionStepsOf(lines) == ParseLines(lines, <<>>, <<>>, 0)

\* The lines a solution text is made of: empty and blank ones, numbered
\* steps in both styles, plain text, lines that start with a digit without
\* being a numbered step or with the marker further on, an unsupported
\* mark and a citation.
SolutionLineKinds ==
    {<<>>,
     <<" ">>,
     <<"1", ".", " ", "a">>,
     <<" ", "2", ")", " ", "b">>,
     <<"c", " ">>,
     <<"3", "d">>,
     <<"4", "e", ".", " ", "f">>,
     <<"g", " ">> \o UnsupportedMarker,
     <<"h", " ", "[", "d", "o", "c", ":", "n", "]">>}

\* The texts parse_solution_steps is called with, as their lines.  The text
\* "" splits into the one line "".
SolutionTexts == UNION {[1..n -> SolutionLineKinds] : n \in 1..MaxLines}

ParserInit ==
    /\ ppc = "idle"
    /\ solution_lines = <<>>
    /\ parsed_steps = <<>>

\* parse_solution_steps, whole.
ParseSolutionSteps ==
    /\ ppc = "idle"
    /\ \E lines \in SolutionTexts :
          /\ solution_lines' = lines
          /\ parsed_steps' = ParseSolutionStepsOf(lines)
    /\ ppc' = "returned"
    /\ UNCHANGED NotParser

\* ------------------------------------------------------------ POST /solve

\* The solutions a reachable model generates, as their lines: two numbered
\* steps, one line of plain text, the empty text.
GeneratedSolutions ==
    {<< <<"1", ".", " ", "a">>, <<" ", "2", ")", " ", "b">> >>,
     << <<"c", " ">> >>,
     << <<>> >>}

\* What _generate_ollama and _generate_openai return when the call of the
\* backend fails: a one-line text in place of a solution.
OllamaFailures ==
    {<< <<"Error: Cannot connect to Ollama. Make sure Ollama is running (ollama serve) and the model is pulled (ollama pull mistral)">> >>,
     << <<"Ollama error: 500 - ">> >>,
     << <<"Error generating solution with Ollama: ">> >>}

OpenAIFailures == {<< <<"Error generating solution: ">> >>}

\* The outcomes of generator.generate_solution for a provider: the text of
\* result['solution'], and whether the backend failed.
GenerationOutcomes(provider) ==
    {[failed |-> FALSE, solution |-> lines] : lines \in GeneratedSolutions}
        \cup {[failed |-> TRUE, solution |-> lines] :
                 lines \in IF provider = "ollama" THEN OllamaFailures ELSE OpenAIFailures}

\* The providers LLM_PROVIDER names.
Providers == {"openai", "ollama", "gemini"}

HttpError(code, detail) == [kind |-> "http_error", code |-> code, detail |-> detail]

NoRequest == [mode |-> "", top_k |-> NoTopK]

NoResponse == [kind |-> "none"]

NoTrace ==
    [hits_found |-> FALSE, generation |-> "none",
     validation_status |-> "none", invoked |-> {}]

SolveInit ==
    /\ apc = "idle"
    /\ request = NoRequest
    /\ response = NoResponse
    /\ solve_trace = NoTrace

\* validator.validate_solution(steps, chunks, mode) of a default validator,
\* given which of the steps the checks find supported.
SolveValidation(steps, supported, m) ==
    LET kept == SelectSeq([k \in 1..Len(steps) |->
                              [step_num |-> steps[k].step_num,
                               step_text |-> steps[k].text,
                               supported |-> supported[k]]],
                          LAMBDA v : ~IsEmptyStep(v.step_text))
        all_sup == \A k \in 1..Len(kept) : kept[k].supported
    IN  BuildResult(m, all_sup, kept)

\* A response that carries the solution whatever the validation found.
SolveResponse_AlwaysSolution(m, solution, chunks_used, validation) ==
    [kind |-> "json", status |-> "success", mode |-> m,
     solution |-> solution,
     validation |-> [status |-> validation.status,
                     message |-> validation.message,
                     total_steps |-> validation.total_steps,
                     supported_steps |-> validation.supported_steps,
                     steps |-> validation.step_validations],
     chunks_used |-> chunks_used]

\* The response that follows a validation that returned.
SolveResponse(m, solution, chunks_used, validation) ==
    IF validation.status = "FAILED"
    THEN [kind |-> "json", status |-> "failed", mode |-> m,
          message |-> validation.message, refusal |-> RefusalMessage]
    ELSE [kind |-> "json", status |-> "success", mode |-> m,
          solution |-> solution,
          validation |-> [status |-> validation.status,
                          message |-> validation.message,
                          total_steps |-> validation.total_steps,
                          supported_steps |-> validation.supported_steps,
                          steps |-> validation.step_validations],
          chunks_used |-> chunks_used]

\* The handler of POST /solve, whole: retrieval, the provider's generator,
\* generation, step parsing, validation, the response.  What the retriever,
\* the model backend and the validator's checks do is given: whether hits
\* hits came back, whether each log write went through, what the generation
\* returned, which steps were found supported.  An HTTPException raised
\* inside the try block is caught by the handler's except clause and raised
\* again with status 500.
Solve ==
    /\ apc = "idle"
    /\ \E m \in Modes, k \in 1..MaxTopK, retriever_set \in BOOLEAN,
          retrieval_log_ok \in BOOLEAN, provider \in Providers, has_key \in BOOLEAN :
       \E hits \in 0..k :
       LET hits_found == hits > 0
       IN
          /\ request' = [mode |-> m, top_k |-> k]
          /\ IF ~retriever_set
             THEN /\ response' = HttpError(400, "No documents uploaded. Upload files first via /upload")
                  /\ solve_trace' = NoTrace
             ELSE IF ~retrieval_log_ok
             THEN /\ response' = HttpError(500, "retrieve raised")
                  /\ solve_trace' = [hits_found |-> hits_found, generation |-> "none",
                                     validation_status |-> "none", invoked |-> {"retrieve"}]
             ELSE IF ~hits_found
             THEN /\ response' = [kind |-> "json", status |-> "no_results",
                                  message |-> "No relevant content found in uploaded resources"]
                  /\ solve_trace' = [hits_found |-> FALSE, generation |-> "none",
                                     validation_status |-> "none", invoked |-> {"retrieve"}]
             ELSE IF provider = "openai" /\ ~has_key
             THEN /\ response' = HttpError(500, "OPENAI_API_KEY not configured")
                  /\ solve_trace' = [hits_found |-> TRUE, generation |-> "refused",
                                     validation_status |-> "none", invoked |-> {"retrieve"}]
             ELSE IF provider \notin {"openai", "ollama"}
             THEN /\ response' = HttpError(500, "Unsupported LLM provider")
                  /\ solve_trace' = [hits_found |-> TRUE, generation |-> "refused",
                                     validation_status |-> "none", invoked |-> {"retrieve"}]
             ELSE \E generated \in GenerationOutcomes(provider), validation_log_ok \in BOOLEAN :
                     LET steps == ParseSolutionStepsOf(generated.solution)
                     IN  \E supported \in [1..Len(steps) -> BOOLEAN] :
                            LET validation == SolveValidation(steps, supported, m)
                            IN  /\ solve_trace' =
                                      [hits_found |-> TRUE,
                                       generation |-> IF generated.failed THEN "failed"
                                                      ELSE "generated",
                                       validation_status |-> IF validation_log_ok
                                                             THEN validation.status
                                                             ELSE "raised",
                                       invoked |-> {"retrieve", "generate", "parse",
                                                    "validate"}]
                                /\ response' =
                                      IF validation_log_ok
                                      THEN SolveResponse(m, generated.solution, hits,
                                                         validation)
                                      ELSE HttpError(500, "validate_solution raised")
    /\ apc' = "responded"
    /\ UNCHANGED NotSolve

\* ----------------------------------------- _check_textual_support, alone

\* Most words of a generated text.
MaxWords == 4

\* The texts the check is given as a step and as a chunk: every text of up
\* to MaxWords words over two words of different case, a text of eight
\* words, its first seven words, and the main chunk, which starts with the
\* eight.
EightWords ==
    <<"a", " ", "b", " ", "c", " ", "d", " ", "e", " ", "f", " ", "g", " ", "h">>

TextualTexts ==
    {JoinSpace(ws) : ws \in SeqsUpTo({<<"a">>, <<"B">>}, MaxWords)}
        \cup {EightWords, SubSeq(EightWords, 1, 13), ChunkTextMain}

\* The values min_ngram_overlap is constructed with: the default, the test
\* suite's, small ones, and 0, which the constructor stores like any other.
MinOverlaps == {0, 1, 2, 4, 6}

NoTextualArgs ==
    [step_text |-> <<>>, chunk_text |-> <<>>, similarity |-> 0,
     sim_threshold |-> 0, min_ngram_overlap |-> 0]

NoTextualResult ==
    [support |-> [supported |-> FALSE, similarity |-> 0, token_overlap |-> 0,
                  confidence |-> "LOW", chunk_id |-> None],
     reverse_overlap |-> 0]

TextualInit ==
    /\ tpc = "idle"
    /\ targs = NoTextualArgs
    /\ text_result = NoTextualResult

\* One call of _check_textual_support with one chunk, on a validator with
\* the default threshold; the encoder's similarity is given.  The overlap
\* of the chunk with the step, arguments exchanged, is taken beside it.
CheckTextualSupportCall ==
    /\ tpc = "idle"
    /\ \E step_text \in TextualTexts, chunk_text \in TextualTexts,
          similarity \in SimLevels, min_overlap \in MinOverlaps :
          /\ targs' = [step_text |-> step_text, chunk_text |-> chunk_text,
                       similarity |-> similarity, sim_threshold |-> 78,
                       min_ngram_overlap |-> min_overlap]
          /\ text_result' =
                [support |-> CheckTextualSupport(step_text, <<chunk_text>>,
                                                 <<[chunk_id |-> ChunkMain.chunk_id]>>,
                                                 <<similarity>>, 78, min_overlap),
                 reverse_overlap |-> ComputeNgramOverlap(chunk_text, step_text)]
    /\ tpc' = "returned"
    /\ UNCHANGED NotTextual

\* ------------------------------------------------ batches: upload and OCR

\* Most files or images of one batch.
MaxBatch == 3

\* The files of a batch: a text file, an image, a file of a type ingest_file
\* rejects, a PDF the reader opens and a PDF the reader fails on.
BatchFiles ==
    {[filename |-> <<"n", ".", "t", "x", "t">>, readable |-> TRUE],
     [filename |-> <<"n", ".", "p", "n", "g">>, readable |-> TRUE],
     [filename |-> <<"n", ".", "m", "d">>, readable |-> TRUE],
     [filename |-> <<"n", ".", "P", "D", "F">>, readable |-> TRUE],
     [filename |-> <<"n", ".", "P", "D", "F">>, readable |-> FALSE]}

\* The name of the temporary file the i-th upload is saved to: a fresh name
\* with the suffix of the uploaded one.
TempName(i, filename) == <<"t", "m", "p">> \o IntToStr(i) \o SplitExt(filename)

\* ingest_file on the temporary file of the i-th upload: it raises on an
\* extension it does not know and when the format's reader fails on the
\* content; an image gets its placeholder without being opened; any other
\* file gets the chunks of its text, here one.
IngestOf(i, file) ==
    LET name == TempName(i, file.filename)
        file_type == FileTypeOf(Lower(SplitExt(name)))
    IN  IF file_type = "" THEN [raised |-> TRUE, chunk_ids |-> <<>>]
        ELSE IF file_type = "image"
        THEN [raised |-> FALSE, chunk_ids |-> <<ImageChunkId(name)>>]
        ELSE IF ~file.readable THEN [raised |-> TRUE, chunk_ids |-> <<>>]
        ELSE [raised |-> FALSE, chunk_ids |-> <<ChunkId(name, 1, 0)>>]

\* The loop over the files of both upload paths, from the i-th file on:
\* all_chunks and the per-file records so far, until a file raises.
RECURSIVE IngestLoop(_, _, _, _)
IngestLoop(files, i, all_chunks, processed_files) ==
    IF i > Len(files)
    THEN [raised |-> FALSE, all_chunks |-> all_chunks, processed_files |-> processed_files]
    ELSE LET got == IngestOf(i, files[i])
         IN  IF got.raised
             THEN [raised |-> TRUE, all_chunks |-> all_chunks,
                   processed_files |-> processed_files]
             ELSE IngestLoop(files, i + 1, all_chunks \o got.chunk_ids,
                             Append(processed_files,
                                    [filename |-> files[i].filename,
                                     chunks |-> Len(got.chunk_ids)]))

BatchInit ==
    /\ bpc = "idle"
    /\ batch = <<>>
    /\ batch_result = [operation |-> "none"]
    /\ batch_indexed = <<>>

\* POST /upload, whole: every file is ingested in turn, then all chunks are
\* indexed in one call; an exception anywhere ends the request with status
\* 500 before index_chunks is reached.
UploadDocuments ==
    /\ bpc = "idle"
    /\ \E files \in SeqsUpTo(BatchFiles, MaxBatch) :
          LET loop == IngestLoop(files, 1, <<>>, <<>>)
          IN  /\ batch' = files
              /\ IF loop.raised
                 THEN /\ batch_result' = [operation |-> "upload", kind |-> "http_error",
                                          code |-> 500]
                      /\ batch_indexed' = <<>>
                 ELSE /\ batch_result' = [operation |-> "upload", kind |-> "json",
                                          status |-> "success",
                                          files_processed |-> Len(files),
                                          total_chunks |-> Len(loop.all_chunks),
                                          details |-> loop.processed_files]
                      /\ batch_indexed' = loop.all_chunks
    /\ bpc' = "returned"
    /\ UNCHANGED NotBatch

\* process_uploaded_files of the UI, whole: the collection is cleared, every
\* file is ingested in turn and reported, then all chunks are indexed; an
\* exception anywhere is shown as one error and nothing is indexed.
ProcessUploadedFiles ==
    /\ bpc = "idle"
    /\ \E files \in SeqsUpTo(BatchFiles, MaxBatch) :
          LET loop == IngestLoop(files, 1, <<>>, <<>>)
          IN  /\ batch' = files
              /\ batch_result' = [operation |-> "process",
                                   kind |-> IF loop.raised THEN "error" ELSE "success",
                                   details |-> loop.processed_files]
              /\ batch_indexed' = IF loop.raised THEN <<>> ELSE loop.all_chunks
    /\ bpc' = "returned"
    /\ UNCHANGED NotBatch

\* What ocr_image does on an image: one of the two engines reads it, both
\* engines fail (ocr_image returns its own failure record), or the image
\* cannot be opened (ocr_image raises).
OcrOutcomes == {"pix2tex", "pytesseract", "engines_failed", "raises"}

\* The record batch_ocr appends for an image.
OcrRecord(image) ==
    IF image.outcome = "raises"
    THEN [text |-> "", method |-> "failed", confidence |-> 0,
          source_file |-> image.name, error |-> TRUE]
    ELSE IF image.outcome = "engines_failed"
    THEN [text |-> "[OCR failed]", method |-> "failed", confidence |-> 0,
          source_file |-> image.name, error |-> FALSE]
    ELSE [text |-> "x", method |-> image.outcome,
          confidence |-> IF image.outcome = "pix2tex" THEN 90 ELSE image.confidence,
          source_file |-> image.name, error |-> FALSE]

\* MathOCR.batch_ocr, whole.
BatchOcr ==
    /\ bpc = "idle"
    /\ \E n \in 0..MaxBatch :
          \E outcomes \in [1..n -> OcrOutcomes], confidences \in [1..n -> {0, 70}] :
             LET images == [i \in 1..n |->
                               [name |-> <<"i", "m", "g">> \o IntToStr(i),
                                outcome |-> outcomes[i],
                                confidence |-> confidences[i]]]
             IN  /\ batch' = images
                 /\ batch_result' = [operation |-> "ocr",
                                      results |-> [i \in 1..n |-> OcrRecord(images[i])]]
    /\ batch_indexed' = <<>>
    /\ bpc' = "returned"
    /\ UNCHANGED NotBatch

\* --------------------------------------- re-indexing beside a retrieval

\* index_chunks(chunks, batch_size=100)
IndexBatchSize == 100

\* Most re-index sequences run one after the other.
MaxRounds == 2

\* Most retrievals that run beside them.
MaxReads == 2

\* The numbers of chunks an upload is ingested to: none, one, a full batch,
\* a batch and one, two batches and a half.
ChunkTotals == {0, 1, 100, 101, 250}

ReindexInit ==
    /\ xpc = "idle"
    /\ store = [exists |-> TRUE, count |-> 0]
    /\ reindex = [round |-> 0, before |-> 0, total |-> 0, indexed |-> 0]
    /\ observed = <<>>

\* process_uploaded_files is entered with the files of an upload.
ReindexCall ==
    /\ xpc \in {"idle", "done"}
    /\ reindex.round < MaxRounds
    /\ \E total \in ChunkTotals :
          reindex' = [round |-> reindex.round + 1, before |-> store.count,
                      total |-> total, indexed |-> 0]
    /\ xpc' = "clearing"
    /\ UNCHANGED <<store, observed>>
    /\ UNCHANGED NotReindex

\* clear_collection: chroma_client.delete_collection(name)
DeleteCollection ==
    /\ xpc = "clearing"
    /\ store' = [exists |-> FALSE, count |-> 0]
    /\ xpc' = "deleted"
    /\ UNCHANGED <<reindex, observed>>
    /\ UNCHANGED NotReindex

\* clear_collection: _initialize_collection() creates the collection anew.
CreateCollection ==
    /\ xpc = "deleted"
    /\ store' = [exists |-> TRUE, count |-> 0]
    /\ xpc' = "created"
    /\ UNCHANGED <<reindex, observed>>
    /\ UNCHANGED NotReindex

\* The files are ingested and index_chunks is entered with their chunks;
\* without chunks it returns at once.
IndexChunksCall ==
    /\ xpc = "created"
    /\ xpc' = IF reindex.total = 0 THEN "done" ELSE "indexing"
    /\ UNCHANGED <<store, reindex, observed>>
    /\ UNCHANGED NotReindex

\* One pass of the batch loop: collection.add of the next batch.
IndexBatch ==
    /\ xpc = "indexing"
    /\ reindex.indexed < reindex.total
    /\ LET added == Min(IndexBatchSize, reindex.total - reindex.indexed)
       IN  /\ store' = [store EXCEPT !.count = @ + added]
           /\ reindex' = [reindex EXCEPT !.indexed = @ + added]
    /\ UNCHANGED <<xpc, observed>>
    /\ UNCHANGED NotReindex

\* The batch loop is through.
IndexChunksReturn ==
    /\ xpc = "indexing"
    /\ reindex.indexed >= reindex.total
    /\ xpc' = "done"
    /\ UNCHANGED <<store, reindex, observed>>
    /\ UNCHANGED NotReindex

\* A retrieve of another session or request queries the stored collection.
\* Nothing orders it with the steps of a re-index: no lock is taken on
\* either side.
ConcurrentRetrieve ==
    /\ Len(observed) < MaxReads
    /\ observed' = Append(observed,
                          [during |-> xpc, exists |-> store.exists, count |-> store.count,
                           before |-> reindex.before, total |-> reindex.total])
    /\ UNCHANGED <<xpc, store, reindex>>
    /\ UNCHANGED NotReindex

ReindexNext ==
    \/ ReindexCall
    \/ DeleteCollection
    \/ CreateCollection
    \/ IndexChunksCall
    \/ IndexBatch
    \/ IndexChunksReturn
    \/ ConcurrentRetrieve

\* ------------------------------------ _are_symbolically_equivalent, alone

\* The expressions the function is called with: "2x = 8", "2x=8", "x = 4",
\* "x=4", "x = 5", "X = 4", "2 x", "2x", "2*x", "1 2", "12", "a × b", "ab".
Expressions ==
    {<<"2", "x", " ", "=", " ", "8">>,
     <<"2", "x", "=", "8">>,
     <<"x", " ", "=", " ", "4">>,
     <<"x", "=", "4">>,
     <<"x", " ", "=", " ", "5">>,
     <<"X", " ", "=", " ", "4">>,
     <<"2", " ", "x">>,
     <<"2", "x">>,
     <<"2", "*", "x">>,
     <<"1", " ", "2">>,
     <<"1", "2">>,
     <<"a", " ", "×", " ", "b">>,
     <<"a", "b">>}

\* Whitespace stands between two digits of the expression: without it the
\* two numerals read as one.
SplitsNumeral(expr) ==
    \E i \in 1..Len(expr) :
        \E j \in (i + 2)..Len(expr) :
            /\ expr[i] \in Digits
            /\ expr[j] \in Digits
            /\ \A k \in (i + 1)..(j - 1) : expr[k] \in Whitespace

\* What the sympy path may do on a pair.  With an "=" in either expression
\* it raises (sympify rejects the "=", and a parsed equation is no operand
\* of a difference).  Otherwise it is the library's verdict on the parsed
\* expressions, or the parser's failure; juxtaposed operands parse as a
\* product, so two expressions that differ only in whitespace parse alike
\* unless the whitespace separates two numerals ("1 2" is 1 times 2).
SympyVerdictsOn(expr1, expr2) ==
    IF "=" \in Range(expr1) \/ "=" \in Range(expr2) THEN {"raises"}
    ELSE IF /\ RemoveChars(expr1, Whitespace) = RemoveChars(expr2, Whitespace)
            /\ ~SplitsNumeral(expr1)
            /\ ~SplitsNumeral(expr2)
         THEN {"zero", "raises"}
         ELSE SympyVerdicts

EquivalenceInit ==
    /\ epc = "idle"
    /\ eargs = [expr1 |-> <<>>, expr2 |-> <<>>, sympy |-> ""]
    /\ equivalent = FALSE

\* One call of _are_symbolically_equivalent.
AreSymbolicallyEquivalentCall ==
    /\ epc = "idle"
    /\ \E expr1 \in Expressions, expr2 \in Expressions :
          \E verdict \in SympyVerdictsOn(expr1, expr2) :
             /\ eargs' = [expr1 |-> expr1, expr2 |-> expr2, sympy |-> verdict]
             /\ equivalent' = AreSymbolicallyEquivalent(expr1, expr2, verdict)
    /\ epc' = "returned"
    /\ UNCHANGED NotEquivalence

\* ------------------------------- validate_strict_mode and the UI's output

\* The modes of the UI's selector.
UiModes == {"prefer", "strict"}

SurfaceInit ==
    /\ opc = "idle"
    /\ surface = [operation |-> "none"]

\* validate_strict_mode, whole, given which steps the checks find
\* supported: the solution text when the strict validation passed, the
\* refusal otherwise.
ValidateStrictMode ==
    /\ opc = "idle"
    /\ \E lines \in GeneratedSolutions :
          LET steps == ParseSolutionStepsOf(lines)
          IN  \E supported \in [1..Len(steps) -> BOOLEAN] :
                 LET validation == SolveValidation(steps, supported, "strict")
                 IN  surface' =
                        [operation |-> "validate_strict_mode",
                         status |-> validation.status,
                         solution_text |-> JoinNewline(lines),
                         returned |-> IF validation.status = "PASSED"
                                      THEN [is_valid |-> TRUE, text |-> JoinNewline(lines)]
                                      ELSE [is_valid |-> FALSE, text |-> RefusalMessage]]
    /\ opc' = "returned"
    /\ UNCHANGED NotSurface

\* The marks the page puts before a validation's message (a cross mark, a
\* check mark and a warning sign in the source), each followed by a space.
ErrorMark == <<"[cross] ">>
SuccessMark == <<"[check] ">>
WarningMark == <<"[warning] ">>

\* What render_output_section puts on the page for a stored validation: on
\* FAILED the message and the refusal and nothing else, otherwise the
\* message and every validated step.
OutputWidgets(validation) ==
    IF validation.status = "FAILED"
    THEN <<[widget |-> "error", text |-> ErrorMark \o validation.message],
           [widget |-> "code", text |-> RefusalMessage]>>
    ELSE <<IF validation.status = "PASSED"
           THEN [widget |-> "success", text |-> SuccessMark \o validation.message]
           ELSE [widget |-> "warning", text |-> WarningMark \o validation.message]>>
         \o [k \in 1..Len(validation.step_validations) |->
                [widget |-> "step", text |-> validation.step_validations[k].step_text]]

\* The UI after a solve that got as far as its validation:
\* render_solve_button stores the solution and the validation, and
\* render_output_section shows them.
RenderOutputSection ==
    /\ opc = "idle"
    /\ \E m \in UiModes, lines \in GeneratedSolutions :
          LET steps == ParseSolutionStepsOf(lines)
          IN  \E supported \in [1..Len(steps) -> BOOLEAN] :
                 LET validation == SolveValidation(steps, supported, m)
                 IN  surface' = [operation |-> "render_output_section",
                                 status |-> validation.status,
                                 solution_text |-> JoinNewline(lines),
                                 output |-> OutputWidgets(validation)]
    /\ opc' = "returned"
    /\ UNCHANGED NotSurface

\* ---------------------------------------------------------- specifications

vars == <<cvars, vvars, dvars, rvars, pvars, svars, tvars, bvars, xvars, evars, ovars>>

\* A component no call is made on, as constructed with its defaults.
ChunkerParked ==
    /\ chunk_size = 600
    /\ chunk_overlap = 100
    /\ IngestorIdle

ValidatorParked ==
    /\ sim_threshold = 78
    /\ min_ngram_overlap = 6
    /\ vpc = "idle"
    /\ mode = ""
    /\ retrieved_chunks = <<>>
    /\ solution_steps = <<>>
    /\ validation_results = <<>>
    /\ all_supported = FALSE
    /\ step_locals = NoLocals
    /\ result = NoResult
    /\ max_text_similarity = LeastSimilarity
    /\ validation_log = <<>>

DerivationParked == derived = <<>>

RetrieverParked ==
    /\ collection = <<>>
    /\ top_k = 10
    /\ rpc = "idle"
    /\ rargs = NoRetrieveArgs
    /\ backend_hits = <<>>
    /\ retrieve_result = <<>>
    /\ retrieval_log = <<>>
    /\ wpc = "idle"
    /\ wargs = NoWindowArgs
    /\ context_window = <<>>

ParserParked == ParserInit

SolveParked == SolveInit

TextualParked == TextualInit

BatchParked == BatchInit

ReindexParked == ReindexInit

EquivalenceParked == EquivalenceInit

SurfaceParked == SurfaceInit

\* Every component but the named one, parked.
OthersParked(component) ==
    /\ IF component = "ingestor" THEN TRUE ELSE ChunkerParked
    /\ IF component = "validator" THEN TRUE ELSE ValidatorParked
    /\ IF component = "derivation" THEN TRUE ELSE DerivationParked
    /\ IF component = "retriever" THEN TRUE ELSE RetrieverParked
    /\ IF component = "parser" THEN TRUE ELSE ParserParked
    /\ IF component = "solve" THEN TRUE ELSE SolveParked
    /\ IF component = "textual" THEN TRUE ELSE TextualParked
    /\ IF component = "batch" THEN TRUE ELSE BatchParked
    /\ IF component = "reindex" THEN TRUE ELSE ReindexParked
    /\ IF component = "equivalence" THEN TRUE ELSE EquivalenceParked
    /\ IF component = "surface" THEN TRUE ELSE SurfaceParked

Init ==
    /\ ChunkerInit
    /\ ValidatorInit
    /\ DerivationInit
    /\ RetrieverInit
    /\ ParserInit
    /\ SolveInit
    /\ TextualInit
    /\ BatchInit
    /\ ReindexInit
    /\ EquivalenceInit
    /\ SurfaceInit

Next ==
    \/ ChunkerNext
    \/ IngestNext
    \/ ValidatorNext
    \/ DeriveChunkId
    \/ RetrieverNext
    \/ ParseSolutionSteps
    \/ Solve
    \/ CheckTextualSupportCall
    \/ UploadDocuments
    \/ ProcessUploadedFiles
    \/ BatchOcr
    \/ ReindexCall
    \/ DeleteCollection
    \/ CreateCollection
    \/ IndexChunksCall
    \/ IndexBatch
    \/ IndexChunksReturn
    \/ ConcurrentRetrieve
    \/ AreSymbolicallyEquivalentCall
    \/ ValidateStrictMode
    \/ RenderOutputSection

\* The whole program: the components, interleaved.
Spec == Init /\ [][Next]_vars

\* The chunker alone.
InitChunker == ChunkerInit /\ OthersParked("ingestor")

SpecChunker == InitChunker /\ [][ChunkerNext]_vars

\* The chunker alone, running: a call that was entered goes on, pass by
\* pass, as the loop of a sequential function does.
SpecChunkerRuns ==
    /\ InitChunker
    /\ [][ChunkerNext]_vars
    /\ WF_vars(ChunkTextLoop)
    /\ WF_vars(ChunkTextReturn)

\* ingest_file and its format handlers.
InitIngest ==
    /\ \E config \in IngestConfigs :
          chunk_size = config[1] /\ chunk_overlap = config[2]
    /\ IngestorIdle
    /\ OthersParked("ingestor")

SpecIngest == InitIngest /\ [][IngestNext]_vars

\* The derivation of chunk ids alone.
InitChunkId == DerivationInit /\ OthersParked("derivation")

SpecChunkId == InitChunkId /\ [][DeriveChunkId]_vars

\* The retriever alone, under calls of retrieve.
InitRetriever == RetrieverInit /\ OthersParked("retriever")

SpecRetriever == InitRetriever /\ [][Retrieve]_vars

\* The retriever alone, under calls of get_context_window.
InitContextWindow == RetrieverInit /\ OthersParked("retriever")

SpecContextWindow == InitContextWindow /\ [][GetContextWindow]_vars

\* The step parser alone.
InitParser == ParserInit /\ OthersParked("parser")

SpecParser == InitParser /\ [][ParseSolutionSteps]_vars

\* The /solve handler alone.
InitSolve == SolveInit /\ OthersParked("solve")

SpecSolve == InitSolve /\ [][Solve]_vars

\* _check_textual_support alone.
InitTextual == TextualInit /\ OthersParked("textual")

SpecTextual == InitTextual /\ [][CheckTextualSupportCall]_vars

\* The batch operations alone.
InitBatch == BatchInit /\ OthersParked("batch")

SpecBatch == InitBatch /\ [][UploadDocuments \/ ProcessUploadedFiles \/ BatchOcr]_vars

\* A re-index beside retrievals.
InitReindex == ReindexInit /\ OthersParked("reindex")

SpecReindex == InitReindex /\ [][ReindexNext]_vars

\* _are_symbolically_equivalent alone.
InitEquivalence == EquivalenceInit /\ OthersParked("equivalence")

SpecEquivalence == InitEquivalence /\ [][AreSymbolicallyEquivalentCall]_vars

\* The three places a validation is shown: /solve, validate_strict_mode and
\* the UI's output section.
InitRefusal == SolveInit /\ OthersParked("solve")

SpecRefusal == InitRefusal /\ [][Solve \/ ValidateStrictMode \/ RenderOutputSection]_vars

\* The validator alone.
InitValidator == ValidatorInit /\ OthersParked("validator")

SpecValidator == InitValidator /\ [][ValidatorNext]_vars

\* --------------------------------------------------------- chunker: claims

\* The window advance, chunk_size - chunk_overlap.
Stride == chunk_size - chunk_overlap

\* The last n elements of a sequence.
LastN(seq, n) == SubSeq(seq, Len(seq) - n + 1, Len(seq))

\* Chunks k and k+1 share exactly chunk_overlap tokens: the last
\* chunk_overlap tokens of chunk k are the first ones of chunk k+1.
OverlapsExactly(k) ==
    /\ Len(chunks[k].chunk_tokens) >= chunk_overlap
    /\ Len(chunks[k + 1].chunk_tokens) >= chunk_overlap
    /\ LastN(chunks[k].chunk_tokens, chunk_overlap)
         = SubSeq(chunks[k + 1].chunk_tokens, 1, chunk_overlap)

\* C8 as stated: with chunk_overlap < chunk_size, every two consecutive
\* chunks of a page overlap by exactly chunk_overlap tokens, the pair ending
\* in the final (possibly shorter) chunk included.
C8_OverlapEveryPair ==
    chunk_overlap < chunk_size =>
        \A k \in 1..(Len(chunks) - 1) : OverlapsExactly(k)

\* C8 as amended: with chunk_overlap < chunk_size, chunk k+1 starts
\* chunk_size - chunk_overlap tokens after chunk k, so the two share the
\* tail of chunk k past its first chunk_size - chunk_overlap tokens. That
\* tail is exactly chunk_overlap tokens when chunk k is a full window of
\* chunk_size tokens (chunk k+1 may be the final, shorter chunk); when chunk
\* k is itself cut short by the end of the sequence the tail is shorter than
\* chunk_overlap, and chunk k+1 is that tail and nothing more.
C8_OverlapIsWindowTail ==
    chunk_overlap < chunk_size =>
        \A k \in 1..(Len(chunks) - 1) :
            LET shared == chunks[k].token_count - Stride
            IN  /\ 0 <= shared /\ shared <= chunk_overlap
                /\ Len(chunks[k + 1].chunk_tokens) >= shared
                /\ LastN(chunks[k].chunk_tokens, shared)
                     = SubSeq(chunks[k + 1].chunk_tokens, 1, shared)
                /\ IF chunks[k].token_count = chunk_size
                   THEN OverlapsExactly(k)
                   ELSE /\ shared < chunk_overlap
                        /\ chunks[k + 1].chunk_tokens
                             = LastN(chunks[k].chunk_tokens, shared)

\* A finished page with a real overlap whose tokens are not all alike,
\* where a full window is followed by a window cut short by the end of the
\* sequence, and that one by a further chunk.
C8_Witness ==
    /\ cpc = "done"
    /\ chunk_overlap >= 1
    /\ Len(chunks) >= 3
    /\ chunks[1].token_count = chunk_size
    /\ \E k \in 2..(Len(chunks) - 1) : chunks[k].token_count < chunk_size
    /\ \E i, j \in 1..Len(tokens) : tokens[i] # tokens[j]

\* C9: with chunk_overlap < chunk_size, chunk k (from 0) holds the tokens
\* [k*Stride, min(k*Stride + chunk_size, N)) of the page's N tokens, no
\* chunk holds a token outside [0, N), and once the page is finished every
\* token index of [0, N) lies in some chunk.
C9_SpansCoverSequence ==
    chunk_overlap < chunk_size =>
        LET N == Len(tokens)
            lo(k) == k * Stride
            hi(k) == Min(k * Stride + chunk_size, N)
        IN  /\ \A k \in 0..(Len(chunks) - 1) :
                  /\ 0 <= lo(k) /\ lo(k) < hi(k) /\ hi(k) <= N
                  /\ chunks[k + 1].chunk_tokens
                       = [i \in 1..(hi(k) - lo(k)) |-> tokens[lo(k) + i]]
            /\ cpc = "done" =>
                  \A i \in 0..(N - 1) :
                      \E k \in 0..(Len(chunks) - 1) : lo(k) <= i /\ i < hi(k)

\* A finished page of several chunks whose windows overlap and whose last
\* window is cut short by the end of the sequence.
C9_Witness ==
    /\ cpc = "done"
    /\ Len(chunks) >= 2
    /\ chunk_overlap >= 1
    /\ (Len(chunks) - 1) * Stride + chunk_size > Len(tokens)
    /\ \E i, j \in 1..Len(tokens) : tokens[i] # tokens[j]

IngestedChunks ==
    Range(file_chunks) \cup (IF ipc = "reading" THEN Range(chunks) ELSE {})

\* C11 as stated: an empty or whitespace-only page, slide or file of a text
\* format yields no chunk, and no chunk of a text format has an empty
\* chunk_text.
C11_BlankYieldsNoChunks ==
    \A c \in IngestedChunks :
        c.file_type \in {"pdf", "docx", "pptx", "txt"} =>
            /\ c.chunk_text # <<>>
            /\ c.page \notin blank_pages

\* C13: chunk_id is a function of (filename, page, chunk_index), and an
\* injective one: two chunks have the same chunk_id exactly when they have
\* the same file name, page and chunk index, image placeholders included.
C13_ChunkIdInjective ==
    \A i, j \in 1..Len(derived) :
        (derived[i].chunk_id = derived[j].chunk_id)
            <=> (derived[i].origin = derived[j].origin)

\* Two different chunks of one file whose page and index digits run
\* together to the same string (page 1, index 10 and page 11, index 0).
C13_Witness ==
    /\ Len(derived) = 2
    /\ derived[1].origin # derived[2].origin
    /\ derived[1].origin.filename = derived[2].origin.filename
    /\ IntToStr(derived[1].origin.page) \o IntToStr(derived[1].origin.chunk_index)
         = IntToStr(derived[2].origin.page) \o IntToStr(derived[2].origin.chunk_index)

\* C12 as stated: a configuration with chunk_overlap >= chunk_size fails
\* fast: no call of the chunker under it enters the sliding loop or produces
\* a chunk.
C12_BadConfigFailsFast ==
    chunk_overlap >= chunk_size => (cpc = "idle" /\ chunks = <<>>)

\* ------------------------------------------------------- retriever: claims

\* C14: retrieve returns at most top_k results, best first by the active
\* score (boosted_similarity with priority_boost, else similarity, the
\* backend's hits coming in ascending distance), each with its 0-based
\* position as rank.
C14_ResultsBestFirst ==
    rpc = "returned" =>
        /\ Len(retrieve_result) <= rargs.k
        /\ \A i \in 1..Len(retrieve_result) : retrieve_result[i].rank = i - 1
        /\ \A i \in 1..(Len(retrieve_result) - 1) :
              IF rargs.priority_boost
              THEN retrieve_result[i].boosted_similarity
                      >= retrieve_result[i + 1].boosted_similarity
              ELSE retrieve_result[i].similarity >= retrieve_result[i + 1].similarity

\* A boosted retrieval that gave more hits than top_k, whose best result is
\* not the backend's nearest hit, and whose results differ in score.
C14_Witness ==
    /\ rpc = "returned"
    /\ rargs.priority_boost
    /\ Len(backend_hits) > rargs.k
    /\ Len(retrieve_result) = rargs.k
    /\ rargs.k >= 2
    /\ retrieve_result[1].chunk_id # backend_hits[1].chunk_id
    /\ retrieve_result[1].boosted_similarity > retrieve_result[2].boosted_similarity

\* The position of a chunk id in the returned list, 0 when it is not there.
ResultPosition(chunk_id) ==
    IF \E i \in 1..Len(retrieve_result) : retrieve_result[i].chunk_id = chunk_id
    THEN CHOOSE i \in 1..Len(retrieve_result) : retrieve_result[i].chunk_id = chunk_id
    ELSE 0

\* C15 as stated: with priority_boost, of two hits with the same raw
\* similarity the one tagged rubric and trusted is ranked above the one
\* tagged normal and untrusted, whatever order and distance the backend
\* gave them: where the normal one is returned, the rubric one is returned
\* before it.
C15_RubricAboveNormal ==
    (rpc = "returned" /\ rargs.priority_boost) =>
        \A i, j \in 1..Len(backend_hits) :
            (/\ backend_hits[i].similarity = backend_hits[j].similarity
             /\ backend_hits[i].metadata.priority = "rubric"
             /\ backend_hits[i].metadata.trusted
             /\ backend_hits[j].metadata.priority = "normal"
             /\ ~backend_hits[j].metadata.trusted
             /\ ResultPosition(backend_hits[j].chunk_id) # 0)
            => /\ ResultPosition(backend_hits[i].chunk_id) # 0
               /\ ResultPosition(backend_hits[i].chunk_id)
                     < ResultPosition(backend_hits[j].chunk_id)

\* C16 as stated: a failure to write the audit log record never becomes an
\* error of the call: neither retrieve nor validate_solution ends by raising.
C16_LoggingFailureInvisible ==
    /\ rpc # "raised"
    /\ vpc # "raised"

\* The indexed chunk with the id get_context_window was called with.
WindowTarget == CHOOSE i \in 1..Len(collection) : collection[i].chunk_id = wargs.chunk_id

\* C17 as stated: for the id of an indexed chunk with index i of a file and
\* page, get_context_window(chunk_id, w) returns exactly the indexed chunks
\* of that file and page with an index in [max(0, i - w), i + w], whatever
\* the file's name.
C17_ContextWindowExact ==
    (/\ wpc # "idle"
     /\ wargs.fetch_ok
     /\ \E i \in 1..Len(collection) : collection[i].chunk_id = wargs.chunk_id)
    => /\ wpc = "returned"
       /\ {context_window[i].chunk_id : i \in 1..Len(context_window)}
            = {collection[i].chunk_id :
                 i \in {j \in 1..Len(collection) :
                          /\ collection[j].metadata.filename
                                = collection[WindowTarget].metadata.filename
                          /\ collection[j].metadata.page
                                = collection[WindowTarget].metadata.page
                          /\ collection[j].metadata.chunk_index
                                >= collection[WindowTarget].metadata.chunk_index
                                      - wargs.window_size
                          /\ collection[j].metadata.chunk_index
                                <= collection[WindowTarget].metadata.chunk_index
                                      + wargs.window_size}}

\* ceil(a / b) for a >= 0 and b >= 1.
CeilDiv(a, b) == (a + b - 1) \div b

\* C27: under 0 <= chunk_overlap < chunk_size a call of _chunk_text that has
\* entered its loop returns, and it returns exactly
\* ceil(N / (chunk_size - chunk_overlap)) chunks for a text of N tokens
\* (none for N = 0).
C27_TerminatesWithCeilChunks ==
    /\ []((chunk_overlap < chunk_size /\ cpc = "done")
            => Len(chunks) = CeilDiv(Len(tokens), chunk_size - chunk_overlap))
    /\ ((chunk_overlap < chunk_size /\ cpc = "loop") ~> cpc = "done")

\* A call with an overlap has returned three chunks or more, the last one
\* short of a full stride.
C27_Witness ==
    /\ cpc = "done"
    /\ chunk_overlap >= 1
    /\ chunk_overlap < chunk_size
    /\ Len(chunks) >= 3
    /\ Len(tokens) % (chunk_size - chunk_overlap) # 0

\* ---------------------------------------------------------- parser: claims

\* C18 as stated: the k-th step parse_solution_steps returns, counted from 1,
\* has step_num = k; no step has step_num 0 and no two steps share a
\* step_num.
C18_StepNumbersFromOne ==
    ppc = "returned"
    => \A k \in 1..Len(parsed_steps) : parsed_steps[k].step_num = k

\* The trimmed line starts with a digit that ". " or ") " follows.
StartsNumbered(line) ==
    /\ Len(line) >= 3
    /\ line[1] \in Digits
    /\ line[2] \in {".", ")"}
    /\ line[3] = " "

\* The input lines of the call, trimmed, without the blank ones.
TrimmedLines ==
    SelectSeq([i \in 1..Len(solution_lines) |-> Strip(solution_lines[i])],
              LAMBDA line : line # <<>>)

\* C25 as stated: a non-blank line that directly follows a non-blank line
\* begins a new step if and only if, trimmed, it starts with a digit that
\* ". " or ") " follows; otherwise it is appended to the buffer, so that it
\* follows the line before it in the text of one step.
C25_NewStepIffNumbered ==
    ppc = "returned"
    => \A i \in 1..(Len(solution_lines) - 1) :
          LET before == Strip(solution_lines[i])
              line == Strip(solution_lines[i + 1])
          IN  (before # <<>> /\ line # <<>>)
              => (StartsNumbered(line)
                  <=> ~\E k \in 1..Len(parsed_steps) :
                         Contains(parsed_steps[k].text,
                                  before \o <<"\n">> \o line))

\* C30: the texts of the returned steps, joined in order, are the trimmed
\* non-blank input lines in order; no returned step is empty; a step's
\* unsupported flag is set if and only if "(UNSUPPORTED)" occurs in its
\* text.
C30_NoContentLostOrDuplicated ==
    ppc = "returned"
    => /\ JoinNewline([k \in 1..Len(parsed_steps) |-> parsed_steps[k].text])
             = JoinNewline(TrimmedLines)
       /\ \A k \in 1..Len(parsed_steps) :
             /\ parsed_steps[k].text # <<>>
             /\ parsed_steps[k].unsupported
                   <=> Contains(parsed_steps[k].text, UnsupportedMarker)

\* A text with a blank line gave several steps, one of them of two lines
\* and one of them marked unsupported.
C30_Witness ==
    /\ ppc = "returned"
    /\ Len(parsed_steps) >= 2
    /\ \E i \in 1..Len(solution_lines) : Strip(solution_lines[i]) = <<>>
    /\ \E k \in 1..Len(parsed_steps) : parsed_steps[k].unsupported
    /\ \E k \in 1..Len(parsed_steps) : ~parsed_steps[k].unsupported

\* ---------------------------------------------------------- /solve: claims

\* C19 as stated: when the retrieval finds no chunks, retrieve returns the
\* empty list without raising and /solve answers with the no-results
\* outcome, having invoked neither generation nor step parsing nor
\* validation.
C19_EmptyRetrievalSkipsGeneration ==
    (/\ apc = "responded"
     /\ "retrieve" \in solve_trace.invoked
     /\ ~solve_trace.hits_found)
    => /\ response.kind = "json"
       /\ response.status = "no_results"
       /\ solve_trace.invoked = {"retrieve"}

\* C20 as stated: when the generation failed (the backend was unreachable,
\* the call raised, the answer was not a 200, the provider is unsupported or
\* unconfigured), /solve answers with an explicit error: never with the
\* success outcome, and never with an outcome a generated solution also has.
C20_GenerationFailureIsError ==
    (apc = "responded" /\ solve_trace.generation \in {"failed", "refused"})
    => response.kind = "http_error"

\* ------------------------------------------------------- validator: claims

\* validate_solution has returned.
Returned == vpc = "done"

\* A text with a character that is not whitespace.
NonBlank(text) == \E i \in 1..Len(text) : text[i] \notin Whitespace

\* The steps of the call that have non-whitespace text, in input order.
NonBlankSteps == SelectSeq(solution_steps, LAMBDA st : NonBlank(st.text))

\* The latest StepValidation, the one step_locals belongs to.
LastValidation == validation_results[Len(validation_results)]

\* C1: in strict mode the returned status is FAILED, with the refusal
\* message, if and only if some non-empty step is unsupported; otherwise it
\* is PASSED; it is never PARTIAL.
C1_StrictIsBinary ==
    (Returned /\ mode = "strict") =>
        LET someUnsupported ==
                \E k \in 1..Len(result.step_validations) :
                    ~result.step_validations[k].supported
        IN  /\ (result.status = "FAILED" /\ result.message = RefusalMessage)
                  <=> someUnsupported
            /\ someUnsupported => result.status = "FAILED"
            /\ ~someUnsupported => result.status = "PASSED"
            /\ result.status # "PARTIAL"

\* A strict call refused although two of its three steps are supported.
C1_Witness ==
    /\ Returned /\ mode = "strict"
    /\ result.status = "FAILED"
    /\ result.total_steps = 3
    /\ result.supported_steps = 2

\* C2 as stated: in strict mode, with at least one non-empty step, if every
\* step's best cosine similarity to the chunks is below sim_threshold the
\* call returns FAILED with the refusal message.
C2_LowSimilarityFails ==
    (/\ Returned /\ mode = "strict"
     /\ result.total_steps >= 1
     /\ max_text_similarity < sim_threshold)
        => (result.status = "FAILED" /\ result.message = RefusalMessage)

\* C2 as amended: in strict mode, with at least one non-empty step, if every
\* step's best cosine similarity to the chunks is below sim_threshold, the
\* call returns FAILED with the refusal message unless every non-empty step
\* is symbolically supported, in which case it returns PASSED; the
\* citations and unsupported flags have no part in it.
C2_LowSimilarityNoSymbolicFails ==
    (/\ Returned /\ mode = "strict"
     /\ result.total_steps >= 1
     /\ max_text_similarity < sim_threshold)
        => IF \A k \in 1..Len(result.step_validations) :
                  result.step_validations[k].support_type = "symbolic"
           THEN result.status = "PASSED"
           ELSE result.status = "FAILED" /\ result.message = RefusalMessage

\* A refused strict call of low similarities one of whose steps is
\* symbolically supported, and which has chunks to compare with.
C2_Witness ==
    /\ Returned /\ mode = "strict"
    /\ retrieved_chunks # <<>>
    /\ result.total_steps >= 2
    /\ max_text_similarity < sim_threshold
    /\ result.status = "FAILED"
    /\ \E k \in 1..Len(result.step_validations) :
           result.step_validations[k].support_type = "symbolic"
    /\ \E k \in 1..Len(result.step_validations) :
           result.step_validations[k].unsupported_flag

\* C3: in prefer mode the returned status is never FAILED: it is PASSED if
\* and only if supported_steps = total_steps and PARTIAL otherwise, and the
\* message reads "<supported>/<total> steps supported by resources.".
C3_PreferNeverFails ==
    (Returned /\ mode = "prefer") =>
        LET supported == Cardinality({k \in 1..Len(result.step_validations) :
                                         result.step_validations[k].supported})
            total == Len(result.step_validations)
        IN  /\ result.status # "FAILED"
            /\ result.status = "PASSED" <=> result.supported_steps = result.total_steps
            /\ result.status = "PARTIAL" <=> result.supported_steps # result.total_steps
            /\ result.supported_steps = supported
            /\ result.total_steps = total
            /\ result.message
                 = <<Digit(supported), "/", Digit(total), " steps supported by resources.">>

\* A prefer call with 2 of 3 steps supported, returned as PARTIAL.
C3_Witness ==
    /\ Returned /\ mode = "prefer"
    /\ result.status = "PARTIAL"
    /\ result.supported_steps = 2
    /\ result.total_steps = 3

\* C4: steps of empty or whitespace-only text are skipped: there is one
\* StepValidation per step of non-whitespace text, in input order, and in
\* the returned result total_steps is the number of those steps,
\* 0 <= supported_steps <= total_steps, and all_supported holds if and only
\* if supported_steps = total_steps.
C4_EmptyStepsSkipped ==
    /\ Len(validation_results) = Len(NonBlankSteps)
    /\ \A k \in 1..Len(validation_results) :
          /\ validation_results[k].step_text = NonBlankSteps[k].text
          /\ validation_results[k].step_num = NonBlankSteps[k].step_num
    /\ Returned =>
          /\ result.step_validations = validation_results
          /\ result.total_steps = Len(NonBlankSteps)
          /\ 0 <= result.supported_steps
          /\ result.supported_steps <= result.total_steps
          /\ result.all_supported <=> result.supported_steps = result.total_steps

\* A returned call with a whitespace-only step between two validated ones.
C4_Witness ==
    /\ Returned
    /\ Len(solution_steps) = 3
    /\ ~NonBlank(solution_steps[2].text)
    /\ result.total_steps = 2
    /\ result.step_validations[2].step_num = 3

\* C5: a step is reported supported if and only if its textual check or its
\* symbolic check succeeds; when both succeed it is reported as textual with
\* the textual check's confidence, when only the symbolic check succeeds as
\* symbolic with confidence HIGH, and when neither succeeds as none.
C5_EitherCheckSupports ==
    Len(validation_results) > 0 =>
        LET r == LastValidation
            textual == step_locals.text_support
            symbolic == step_locals.symbolic_support
        IN  /\ r.step_text = step_locals.step_text
            /\ r.supported <=> (textual.supported \/ symbolic.supported)
            /\ (textual.supported /\ symbolic.supported) =>
                  (r.support_type = "textual" /\ r.confidence = textual.confidence)
            /\ (textual.supported /\ ~symbolic.supported) =>
                  (r.support_type = "textual" /\ r.confidence = textual.confidence)
            /\ (~textual.supported /\ symbolic.supported) =>
                  (r.support_type = "symbolic" /\ r.confidence = "HIGH")
            /\ (~textual.supported /\ ~symbolic.supported) => r.support_type = "none"

\* A step both of whose checks succeed, the textual one at MEDIUM.
C5_Witness ==
    /\ Len(validation_results) > 0
    /\ step_locals.text_support.supported
    /\ step_locals.symbolic_support.supported
    /\ step_locals.text_support.confidence = "MEDIUM"
    /\ LastValidation.support_type = "textual"

\* The first position of the largest of the similarities.
BestPosition(sims) ==
    CHOOSE b \in 1..Len(sims) :
        /\ \A j \in 1..Len(sims) : sims[j] <= sims[b]
        /\ \A j \in 1..(b - 1) : sims[j] # sims[b]

\* C6: a step is textually supported if and only if there are chunks, the
\* similarity of its best-matching chunk is >= sim_threshold and the 3-gram
\* overlap of the step text with that one chunk's text is
\* >= min_ngram_overlap.
C6_TextualSupportGate ==
    Len(validation_results) > 0 =>
        LET sims == step_locals.similarities
            textual == step_locals.text_support
        IN  IF retrieved_chunks = <<>>
            THEN ~textual.supported
            ELSE LET b == BestPosition(sims)
                     overlap == ComputeNgramOverlap(step_locals.step_text,
                                                    retrieved_chunks[b].chunk_text)
                 IN  /\ textual.similarity = sims[b]
                     /\ textual.supported <=>
                            (sims[b] >= sim_threshold /\ overlap >= min_ngram_overlap)

\* A step that is not textually supported because its best-matching chunk
\* shares too few 3-grams with it, although another chunk passes both
\* gates.
C6_Witness ==
    /\ Len(validation_results) > 0
    /\ Len(retrieved_chunks) = 2
    /\ ~step_locals.text_support.supported
    /\ step_locals.text_support.similarity >= sim_threshold
    /\ \E i \in 1..2 :
          /\ step_locals.similarities[i] >= sim_threshold
          /\ ComputeNgramOverlap(step_locals.step_text, retrieved_chunks[i].chunk_text)
               >= min_ngram_overlap

\* The case of C7: the best similarity passes the threshold, the overlap
\* fails its gate, and there is no symbolic match.
OverlapGateAloneFails ==
    /\ Len(validation_results) > 0
    /\ step_locals.text_support.similarity >= sim_threshold
    /\ step_locals.text_support.token_overlap < min_ngram_overlap
    /\ ~step_locals.symbolic_support.supported

\* C7 as stated: the confidence validate reports for a step is the bucket
\* of its best similarity alone; a step whose best similarity is
\* >= sim_threshold, whose overlap is below min_ngram_overlap and which has
\* no symbolic match is reported unsupported with confidence MEDIUM or HIGH.
C7_ReportedConfidenceIsBucket ==
    OverlapGateAloneFails =>
        (~LastValidation.supported /\ LastValidation.confidence \in {"MEDIUM", "HIGH"})

\* C7 as amended: the confidence the textual check computes is the bucket of
\* the best similarity alone (HIGH if >= 0.85, MEDIUM if >= sim_threshold,
\* else LOW), whatever the overlap; validate reports that bucket only for a
\* textually supported step, and a step whose best similarity is
\* >= sim_threshold, whose overlap is below min_ngram_overlap and which has
\* no symbolic match is reported unsupported with confidence LOW.
C7_BucketComputedLowReported ==
    Len(validation_results) > 0 =>
        LET textual == step_locals.text_support
        IN  /\ textual.confidence
                 = (IF textual.similarity >= HighConfidence THEN "HIGH"
                    ELSE IF textual.similarity >= sim_threshold THEN "MEDIUM"
                    ELSE "LOW")
            /\ textual.supported => LastValidation.confidence = textual.confidence
            /\ OverlapGateAloneFails =>
                  /\ textual.confidence \in {"MEDIUM", "HIGH"}
                  /\ ~LastValidation.supported
                  /\ LastValidation.confidence = "LOW"

\* A step of MEDIUM similarity that fails the overlap gate alone.
C7_Witness ==
    /\ OverlapGateAloneFails
    /\ step_locals.text_support.confidence = "MEDIUM"
    /\ step_locals.text_support.token_overlap > 0
    /\ LastValidation.confidence = "LOW"

\* C26 as stated: the best_match_chunk of every StepValidation is None or
\* the chunk_id of one of the retrieved chunks of the call, whether the
\* support is textual or symbolic.
C26_BestMatchIsRetrievedChunk ==
    \A k \in 1..Len(validation_results) :
        validation_results[k].best_match_chunk
            \in {None} \cup {retrieved_chunks[i].chunk_id : i \in 1..Len(retrieved_chunks)}

\* C28: a call whose step list holds no non-empty step returns PASSED with
\* total_steps = 0 and supported_steps = 0, in every mode and whatever the
\* chunks; and a mode other than "strict" gets the prefer policy (PARTIAL
\* or PASSED by the supported count, with the count message), never FAILED.
C28_NoStepsPassesAndOtherModesPrefer ==
    Returned
    => /\ NonBlankSteps = <<>>
            => /\ result.status = "PASSED"
               /\ result.total_steps = 0
               /\ result.supported_steps = 0
       /\ mode # "strict"
            => /\ result.status # "FAILED"
               /\ result.status = IF result.supported_steps < result.total_steps
                                   THEN "PARTIAL" ELSE "PASSED"
               /\ result.message = PreferMessage(result.supported_steps,
                                                  result.total_steps)

\* A strict call with chunks and only whitespace-only steps has passed.
C28_Witness ==
    /\ Returned
    /\ mode = "strict"
    /\ retrieved_chunks # <<>>
    /\ Len(solution_steps) >= 2
    /\ NonBlankSteps = <<>>
    /\ result.status = "PASSED"
    /\ result.total_steps = 0

\* ------------------------------------------- _check_textual_support: claims

\* The whitespace-separated tokens of the step of the call, lowercased.
StepTokens == Split(Lower(targs.step_text))

ChunkTokens == Split(Lower(targs.chunk_text))

\* The distinct 3-grams of a token list, as triples.
Trigrams(toks) == {<<toks[i], toks[i + 1], toks[i + 2]>> : i \in 1..(Len(toks) - 2)}

\* What C29 says of the overlap count: at most max(0, tokens - 2), the same
\* with the arguments exchanged, and at most the number of distinct 3-grams
\* of either text.
OverlapBounds ==
    /\ text_result.support.token_overlap <= Max(0, Len(StepTokens) - 2)
    /\ text_result.support.token_overlap = text_result.reverse_overlap
    /\ text_result.support.token_overlap <= Cardinality(Trigrams(StepTokens))
    /\ text_result.support.token_overlap <= Cardinality(Trigrams(ChunkTokens))

\* C29 as stated: a step of fewer than min_ngram_overlap + 2 tokens is never
\* textually supported, whatever its similarity and whatever the value of
\* min_ngram_overlap; and the overlap count has its bounds.
C29_ShortStepNeverSupported ==
    tpc = "returned"
    => /\ Len(StepTokens) < targs.min_ngram_overlap + 2
            => ~text_result.support.supported
       /\ OverlapBounds

\* C29, amended: under a min_ngram_overlap of at least 1, a step of fewer
\* than min_ngram_overlap + 2 tokens is never textually supported, whatever
\* its similarity; and the overlap count has its bounds.
C29_ShortStepUnsupportedUnderPositiveGate ==
    tpc = "returned"
    => /\ (targs.min_ngram_overlap >= 1
            /\ Len(StepTokens) < targs.min_ngram_overlap + 2)
            => ~text_result.support.supported
       /\ OverlapBounds

\* A step of seven words that are the chunk's first seven, at the HIGH mark
\* of similarity, is refused under the default gate of 6: it has five
\* 3-grams.
C29_Witness ==
    /\ tpc = "returned"
    /\ targs.min_ngram_overlap = 6
    /\ Len(StepTokens) = 7
    /\ targs.similarity >= HighConfidence
    /\ text_result.support.token_overlap = 5
    /\ ~text_result.support.supported

\* ------------------------------------------------------------ batches: claims

\* C23 as stated: in a batch upload a file whose extraction fails does not
\* abort the batch, the chunks of every other file are still indexed; and a
\* batch OCR returns one record per image, in input order, with
\* method = "failed" and confidence 0.0 for each image that failed.
C23_OneBadFileDoesNotAbort ==
    bpc = "returned"
    => /\ batch_result.operation \in {"upload", "process"}
            => \A i \in 1..Len(batch) :
                  ~IngestOf(i, batch[i]).raised
                  => \A c \in Range(IngestOf(i, batch[i]).chunk_ids) :
                        c \in Range(batch_indexed)
       /\ batch_result.operation = "ocr"
            => /\ Len(batch_result.results) = Len(batch)
               /\ \A i \in 1..Len(batch) :
                     /\ batch_result.results[i].source_file = batch[i].name
                     /\ batch[i].outcome \in {"engines_failed", "raises"}
                           => /\ batch_result.results[i].method = "failed"
                              /\ batch_result.results[i].confidence = 0

\* ----------------------------------------------------------- re-index: claims

\* C22 as stated: a retrieve that runs while a clear-then-index sequence is
\* in progress never finds an intermediate state of the collection: it finds
\* the collection as it was before the sequence or as it is after it, never
\* deleted, cleared or indexed in part.
C22_ReaderSeesNoIntermediateState ==
    \A i \in 1..Len(observed) :
        observed[i].during \notin {"idle", "done"}
        => /\ observed[i].exists
           /\ observed[i].count \in {observed[i].before, observed[i].total}

\* -------------------------------------- _are_symbolically_equivalent: claims

\* An expression without its whitespace.
Unspaced(expr) == SelectSeq(expr, LAMBDA c : c \notin Whitespace)

\* The two expressions of the call differ at most in whitespace.
SameButWhitespace == Unspaced(eargs.expr1) = Unspaced(eargs.expr2)

\* An expression lowercased, without whitespace and multiplication glyphs.
Canonical(expr) == SelectSeq(Lower(expr), LAMBDA c : c \notin Whitespace \cup {"*", "×"})

\* The position of the first "=" of an unspaced expression, 0 without one.
EqualsAt(expr) ==
    IF "=" \in Range(Unspaced(expr))
    THEN CHOOSE i \in 1..Len(Unspaced(expr)) :
             /\ Unspaced(expr)[i] = "="
             /\ \A j \in 1..(i - 1) : Unspaced(expr)[j] # "="
    ELSE 0

\* The two expressions are equations of one left side with different
\* numerals as their right sides.
DifferInConstant ==
    LET a == Unspaced(eargs.expr1)
        b == Unspaced(eargs.expr2)
        i == EqualsAt(eargs.expr1)
    IN  /\ i > 1
        /\ EqualsAt(eargs.expr2) = i
        /\ SubSeq(a, 1, i) = SubSeq(b, 1, i)
        /\ Len(a) > i
        /\ Len(b) > i
        /\ \A k \in (i + 1)..Len(a) : a[k] \in Digits
        /\ \A k \in (i + 1)..Len(b) : b[k] \in Digits
        /\ SubSeq(a, i + 1, Len(a)) # SubSeq(b, i + 1, Len(b))

\* C24 as stated: two expressions that differ only in whitespace are judged
\* equivalent; two equations that differ in a constant are judged not
\* equivalent; and when parsing fails the decision is the equality of the
\* strings without whitespace, lowercased, without multiplication glyphs.
C24_WhitespaceInsensitive ==
    epc = "returned"
    => /\ SameButWhitespace => equivalent
       /\ DifferInConstant => ~equivalent
       /\ eargs.sympy = "raises"
            => (equivalent <=> Canonical(eargs.expr1) = Canonical(eargs.expr2))

\* C24, amended: two expressions that differ only in whitespace are judged
\* equivalent when they are equations or when parsing fails; two equations
\* that differ in a constant are judged not equivalent; and when parsing
\* fails the decision is the equality of the strings without whitespace,
\* lowercased, without multiplication glyphs.
C24_WhitespaceInsensitiveOffTheSympyPath ==
    epc = "returned"
    => /\ (SameButWhitespace /\ eargs.sympy = "raises") => equivalent
       /\ DifferInConstant => ~equivalent
       /\ eargs.sympy = "raises"
            => (equivalent <=> Canonical(eargs.expr1) = Canonical(eargs.expr2))

\* "2x = 8" and "2x=8" were judged equivalent.
C24_Witness ==
    /\ epc = "returned"
    /\ eargs.expr1 = <<"2", "x", " ", "=", " ", "8">>
    /\ eargs.expr2 = <<"2", "x", "=", "8">>
    /\ equivalent

\* --------------------------------------------------- refusal: claims

\* C21: when the validation status is FAILED the caller gets the literal
\* refusal message and neither the solution text nor its steps, from /solve,
\* from validate_strict_mode and from the UI's output section (which shows
\* the refusal twice, once behind its error mark); the solution is shown
\* only under PASSED or PARTIAL.
C21_FailedShowsOnlyRefusal ==
    /\ (apc = "responded" /\ solve_trace.validation_status = "FAILED")
         => /\ response.kind = "json"
            /\ response.status = "failed"
            /\ response.message = RefusalMessage
            /\ response.refusal = RefusalMessage
            /\ DOMAIN response \cap {"solution", "validation"} = {}
    /\ (apc = "responded" /\ response.kind = "json" /\ "solution" \in DOMAIN response)
         => solve_trace.validation_status \in {"PASSED", "PARTIAL"}
    /\ (opc = "returned" /\ surface.operation = "validate_strict_mode")
         => /\ surface.status = "FAILED"
                 => surface.returned = [is_valid |-> FALSE, text |-> RefusalMessage]
            /\ surface.returned.is_valid => surface.status \in {"PASSED", "PARTIAL"}
            /\ ~surface.returned.is_valid => surface.returned.text = RefusalMessage
    /\ (opc = "returned" /\ surface.operation = "render_output_section")
         => /\ surface.status = "FAILED"
                 => surface.output = <<[widget |-> "error",
                                        text |-> ErrorMark \o RefusalMessage],
                                       [widget |-> "code", text |-> RefusalMessage]>>
            /\ (\E k \in 1..Len(surface.output) : surface.output[k].widget = "step")
                 => surface.status \in {"PASSED", "PARTIAL"}

\* /solve has refused a generated solution of two steps, and the UI shows a
\* refusal.
C21_Witness ==
    /\ apc = "responded"
    /\ solve_trace.generation = "generated"
    /\ solve_trace.validation_status = "FAILED"
    /\ response.status = "failed"
    /\ opc = "returned"
    /\ surface.operation = "render_output_section"
    /\ surface.status = "FAILED"
    /\ surface.solution_text # <<>>

====
